---------------------------- MODULE Spec2Model ----------------------------
(***************************************************************************)
(* State-machine model of the itinerary server: the resilient tool         *)
(* invoker (api_server.js), the Link Scout (scout.js), the Link Explorer   *)
(* (explorer.js) and the JSON extractor (planner.js).                      *)
(*                                                                         *)
(* JavaScript strings are modelled as sequences of one-character strings,  *)
(* so that includes(), concatenation, split() and the regular expressions  *)
(* are computed character by character.  The backquote character, which a  *)
(* TLA+ string cannot hold, is the element "backtick".                     *)
(***************************************************************************)
EXTENDS Integers, Sequences, FiniteSets, TLC

VARIABLES
  \* ---- resilient invoker (api_server.js) ----
  mcpClient,    \* module-level handle: id of the client created last
  searchTool,   \* module-level handle of the search_engine tool
  scrapeTool,   \* module-level handle of the scrape_as_markdown tool
  pc,           \* per request: position inside safeToolInvoke
  tool,         \* per request: the `tool` argument of the running invocation
  attempt,      \* per request: the `attempt` argument
  cl,           \* per request: the client whose getTools() it awaits
  log,          \* per request: completed tool invocations and reconnects
  ret,          \* per request: what safeToolInvoke returned or threw
  \* ---- JSON extractor (planner.js) ----
  xText,        \* the `text` argument of extractJSON
  xStage,       \* the strategy extractJSON is about to try, or how it ended
  xTried,       \* the strategies tried so far, in order
  xResult,      \* the value extractJSON returned
  \* ---- environment ----
  tz,           \* the time zone the process runs in
  \* ---- Link Scout (scout.js) ----
  interests,    \* scoutEvents' arguments
  startDate,    \* the date range of the request, an argument of
  endDate,      \* generateItinerary, scoutEvents and analyzeEventCoverage
  dates,        \* what getDateRange returned
  spc,          \* position inside scoutEvents
  calls,        \* the generateContent calls issued so far: (interest, date)
  generated,    \* how each call issued by the Scout ended
  searchResults,
  allLinks,
  totalLinksFound,
  modelTexts,   \* the texts the upstream model can answer the Scout with
  \* ---- Link Explorer (explorer.js) and the orchestrator's phase 3 ----
  links,        \* exploreLinks' argument
  epc,          \* position inside exploreLinks
  analyzed,     \* how each generateContent call of the Explorer ended
  allEvents,
  allRejected,
  totalAnalyzed,
  events,       \* the events exploreLinks returned
  itinerary,    \* the events generateItinerary returned
  coverage,     \* what analyzeEventCoverage returned, one entry per date
  itineraryFile, \* the events Logger.logFinalItinerary wrote to itinerary.json
  \* ---- HTTP routes (api_server.js) ----
  route,        \* the route of the request being served
  reqBody,      \* req.body
  rpc,          \* position inside the route handler
  upstream,     \* the upstream calls the handler issued, in order
  edited,       \* how the Editor's generateContent call ended
  frames,       \* the server-sent events written so far
  response      \* the HTTP response: status and JSON body

invVars == <<mcpClient, searchTool, scrapeTool, pc, tool, attempt, cl, log, ret>>
xVars == <<xText, xStage, xTried, xResult>>
sVars == <<interests, startDate, endDate, dates, spc, calls, generated,
           searchResults, allLinks, totalLinksFound, modelTexts>>
eVars == <<links, epc, analyzed, allEvents, allRejected, totalAnalyzed, events, itinerary,
           coverage, itineraryFile>>
rVars == <<route, reqBody, rpc, upstream, edited, frames, response>>

vars == <<invVars, xVars, tz, sVars, eVars, rVars>>

\* the variables each component leaves alone
notInv == <<xVars, tz, sVars, eVars, rVars>>
notX == <<invVars, tz, sVars, eVars, rVars>>
notS == <<invVars, xVars, tz, eVars, rVars>>
notE == <<invVars, xVars, tz, sVars, rVars>>

\* a component that is not running
XIdle == xText = <<>> /\ xStage = "idle" /\ xTried = <<>> /\ xResult = <<>>

\* the Scout is not running
SOff ==
  /\ interests = <<>> /\ dates = <<>>
  /\ spc = "idle" /\ calls = <<>> /\ generated = <<>>
  /\ searchResults = <<>> /\ allLinks = <<>> /\ totalLinksFound = 0
  /\ modelTexts = {}

SIdle == SOff /\ startDate = <<>> /\ endDate = <<>>

EIdle ==
  /\ links = <<>> /\ epc = "idle" /\ analyzed = <<>>
  /\ allEvents = <<>> /\ allRejected = <<>> /\ totalAnalyzed = 0
  /\ events = <<>> /\ itinerary = <<>> /\ coverage = <<>> /\ itineraryFile = <<>>

\* no request is being served
RIdle ==
  /\ route = "none" /\ reqBody = <<>> /\ rpc = "idle"
  /\ upstream = <<>> /\ edited = <<>> /\ frames = <<>> /\ response = <<>>

-----------------------------------------------------------------------------
(* Strings *)

\* String.prototype.includes
includes(s, sub) ==
  \E i \in 0..(Len(s) - Len(sub)) : SubSeq(s, i + 1, i + Len(sub)) = sub

\* api_server.js:218-220, the three transport-failure signatures
SigNoActiveTransport == <<"N","o"," ","a","c","t","i","v","e"," ","t","r","a","n","s","p","o","r","t">>
SigConnectionClosed == <<"C","o","n","n","e","c","t","i","o","n"," ","c","l","o","s","e","d">>
SigHttp400 == <<"H","T","T","P"," ","4","0","0">>

\* error messages a tool invocation can fail with; <<>> is an error without
\* a message (undefined and "" are both falsy)
MsgNone == <<>>
MsgSseClosed == <<"S","S","E",":"," ">> \o SigConnectionClosed
MsgPost400 == <<"P","O","S","T"," ","(">> \o SigHttp400 \o <<")">>
MsgHttp500 == <<"H","T","T","P"," ","5","0","0">>
MsgRefused == <<"E","C","O","N","N","R","E","F","U","S","E","D">>

\* api_server.js:187
MsgToolsNotFound == <<"R","e","q","u","i","r","e","d"," ","t","o","o","l","s"," ","n","o","t"," ","f","o","u","n","d">>

\* the TypeError of `tool.invoke` on an undefined handle
MsgTypeError == <<"u","n","d","e","f","i","n","e","d",".","i","n","v","o","k","e">>

InvokeMessages ==
  {SigNoActiveTransport, MsgSseClosed, MsgPost400, MsgNone, MsgHttp500}

InitMessages == {MsgRefused}

-----------------------------------------------------------------------------
(* Resilient invoker: api_server.js:166-253 *)

\* two requests run safeToolInvoke concurrently on the shared handles
Requests == {"A", "B"}

\* values a successful tool invocation resolves to
ToolResults == {"r1", "r2"}

Undefined == [name |-> "undefined", client |-> 0]
Handle(n, c) == [name |-> n, client |-> c]

Ok(v) == [kind |-> "ok", res |-> v, msg |-> <<>>]
Err(m) == [kind |-> "err", res |-> "", msg |-> m]
None == [kind |-> "none", res |-> "", msg |-> <<>>]

\* the HTTP signature without its status code
isTransportErrorAnyHttp(m) ==
  /\ m # <<>>
  /\ \/ includes(m, SigNoActiveTransport)
     \/ includes(m, SigConnectionClosed)
     \/ includes(m, <<"H","T","T","P">>)

\* api_server.js:216-220
isTransportError(m) ==
  /\ m # <<>>
  /\ \/ includes(m, SigNoActiveTransport)
     \/ includes(m, SigConnectionClosed)
     \/ includes(m, SigHttp400)

\* the stop condition off by one: a second retry is allowed
GiveUpAfterTwoRetries(a) == a > 2

\* api_server.js:210, the stop condition of the retry
GiveUp(a) == a > 1

\* api_server.js:233
NewTool(t) == IF t.name = "search_engine" THEN searchTool ELSE scrapeTool

\* the retry awaited without `return`: the caller gets undefined
RetryReturnDropped(out) == [kind |-> "ok", res |-> "", msg |-> <<>>]

\* api_server.js:237, `return await safeToolInvoke(newTool, ...)`
RetryReturn(out) == out

Entry(op, out) == [op |-> op, out |-> out]

InvIdle ==
  /\ mcpClient = 1
  /\ searchTool = Handle("search_engine", 1)
  /\ scrapeTool = Handle("scrape_as_markdown", 1)
  /\ pc = [r \in Requests |-> "idle"]
  /\ tool = [r \in Requests |-> Undefined]
  /\ attempt = [r \in Requests |-> 0]
  /\ cl = [r \in Requests |-> 0]
  /\ log = [r \in Requests |-> <<>>]
  /\ ret = [r \in Requests |-> None]

\* after start(): the first initializeMCP has completed, no request runs
InvInit == InvIdle /\ XIdle /\ tz = "UTC" /\ SIdle /\ EIdle /\ RIdle

\* safeToolInvoke settles: its parameters and locals are gone
Return(r) ==
  /\ pc' = [pc EXCEPT ![r] = "done"]
  /\ tool' = [tool EXCEPT ![r] = Undefined]
  /\ attempt' = [attempt EXCEPT ![r] = 0]
  /\ cl' = [cl EXCEPT ![r] = 0]

\* a caller evaluates `searchTool` or `scrapeTool` and enters safeToolInvoke
\* (api_server.js:298, 317, 361); tool.invoke is dispatched
Call(r, h) ==
  /\ pc[r] = "idle"
  /\ tool' = [tool EXCEPT ![r] = h]
  /\ attempt' = [attempt EXCEPT ![r] = 1]
  /\ pc' = [pc EXCEPT ![r] = "invoke"]
  /\ UNCHANGED <<mcpClient, searchTool, scrapeTool, cl, log, ret>>
  /\ UNCHANGED notInv

\* api_server.js:207, tool.invoke resolves
InvokeOk(r, v) ==
  /\ pc[r] = "invoke"
  /\ tool[r] # Undefined
  /\ log' = [log EXCEPT ![r] = Append(@, Entry("invoke", Ok(v)))]
  /\ ret' = [ret EXCEPT ![r] = IF attempt[r] > 1 THEN RetryReturn(Ok(v)) ELSE Ok(v)]
  /\ Return(r)
  /\ UNCHANGED <<mcpClient, searchTool, scrapeTool>>
  /\ UNCHANGED notInv

\* api_server.js:208-252, tool.invoke rejects (or throws, on a missing
\* handle) with message m; on a transport error of the first attempt
\* initializeMCP starts: it replaces mcpClient and awaits getTools()
InvokeFail(r, m) ==
  /\ pc[r] = "invoke"
  /\ tool[r] = Undefined => m = MsgTypeError
  /\ tool[r] # Undefined => m \in InvokeMessages
  /\ log' = [log EXCEPT ![r] = Append(@, Entry("invoke", Err(m)))]
  /\ IF GiveUp(attempt[r]) \/ ~isTransportError(m)
       THEN /\ ret' = [ret EXCEPT ![r] = Err(m)]
            /\ Return(r)
            /\ UNCHANGED mcpClient
       ELSE /\ mcpClient' = mcpClient + 1
            /\ cl' = [cl EXCEPT ![r] = mcpClient + 1]
            /\ pc' = [pc EXCEPT ![r] = "getTools"]
            /\ UNCHANGED <<ret, tool, attempt>>
  /\ UNCHANGED <<searchTool, scrapeTool>>
  /\ UNCHANGED notInv

\* api_server.js:182-190, getTools() resolves with the tools named in `names`
GetToolsOk(r, names) ==
  /\ pc[r] = "getTools"
  /\ searchTool' = IF "search_engine" \in names
                     THEN Handle("search_engine", cl[r]) ELSE Undefined
  /\ scrapeTool' = IF "scrape_as_markdown" \in names
                     THEN Handle("scrape_as_markdown", cl[r]) ELSE Undefined
  /\ IF names = {"search_engine", "scrape_as_markdown"}
       THEN /\ log' = [log EXCEPT ![r] = Append(@, Entry("init", Ok("")))]
            /\ pc' = [pc EXCEPT ![r] = "retry"]
            /\ UNCHANGED <<ret, tool, attempt, cl>>
       ELSE /\ log' = [log EXCEPT ![r] = Append(@, Entry("init", Err(MsgToolsNotFound)))]
            /\ ret' = [ret EXCEPT ![r] = Err(MsgToolsNotFound)]
            /\ Return(r)
  /\ UNCHANGED mcpClient
  /\ UNCHANGED notInv

\* a failed reconnect swallowed: the retry is dispatched all the same
GetToolsFailIgnored(r, m) ==
  /\ pc[r] = "getTools"
  /\ log' = [log EXCEPT ![r] = Append(@, Entry("init", Err(m)))]
  /\ pc' = [pc EXCEPT ![r] = "retry"]
  /\ UNCHANGED <<mcpClient, searchTool, scrapeTool, ret, tool, attempt, cl>>
  /\ UNCHANGED notInv

\* api_server.js:182, 191-194, 244-247: getTools() rejects
GetToolsFail(r, m) ==
  /\ pc[r] = "getTools"
  /\ log' = [log EXCEPT ![r] = Append(@, Entry("init", Err(m)))]
  /\ ret' = [ret EXCEPT ![r] = Err(m)]
  /\ Return(r)
  /\ UNCHANGED <<mcpClient, searchTool, scrapeTool>>
  /\ UNCHANGED notInv

\* api_server.js:233-243, the continuation after `await initializeMCP()`:
\* reads the module-level handle and dispatches the retry
Resume(r) ==
  /\ pc[r] = "retry"
  /\ tool' = [tool EXCEPT ![r] = NewTool(tool[r])]
  /\ attempt' = [attempt EXCEPT ![r] = attempt[r] + 1]
  /\ pc' = [pc EXCEPT ![r] = "invoke"]
  /\ UNCHANGED <<mcpClient, searchTool, scrapeTool, cl, log, ret>>
  /\ UNCHANGED notInv

InvNext ==
  \E r \in Requests :
    \/ \E h \in {searchTool, scrapeTool} : Call(r, h)
    \/ \E v \in ToolResults : InvokeOk(r, v)
    \/ \E m \in InvokeMessages \cup {MsgTypeError} : InvokeFail(r, m)
    \/ \E names \in SUBSET {"search_engine", "scrape_as_markdown"} : GetToolsOk(r, names)
    \/ \E m \in InitMessages : GetToolsFail(r, m)
    \/ Resume(r)

SpecInvoke == InvInit /\ [][InvNext]_vars

-----------------------------------------------------------------------------
(* Properties of the resilient invoker *)

\* the outcomes of the tool invocations of request r, in order
Invocations(r) == SelectSeq(log[r], LAMBDA e : e.op = "invoke")

\* the outcomes of the reconnects of request r that have completed
Reconnects(r) == SelectSeq(log[r], LAMBDA e : e.op = "init")

\* reconnects request r has started
ReconnectsStarted(r) == Len(Reconnects(r)) + (IF pc[r] = "getTools" THEN 1 ELSE 0)

\* a message carrying one of the three transport-failure signatures
HasTransportSignature(m) ==
  \E sig \in {SigNoActiveTransport, SigConnectionClosed, SigHttp400} : includes(m, sig)

FailedWithTransport(e) == e.out.kind = "err" /\ HasTransportSignature(e.out.msg)

\* the case of C1: transport failure, successful reconnect, successful retry
RetrySucceeded(r) ==
  /\ Len(Invocations(r)) >= 2
  /\ FailedWithTransport(Invocations(r)[1])
  /\ Len(Reconnects(r)) >= 1
  /\ Reconnects(r)[1].out.kind = "ok"
  /\ Invocations(r)[2].out.kind = "ok"

\* C1: a call whose first invocation fails with a transport signature, whose
\* reconnect succeeds and whose retried invocation succeeds has returned the
\* retried invocation's result after exactly one reconnect and exactly two
\* tool invocations.
C1_RetryResultReturned ==
  \A r \in Requests :
    RetrySucceeded(r) =>
      /\ pc[r] = "done"
      /\ ret[r] = Invocations(r)[2].out
      /\ ReconnectsStarted(r) = 1
      /\ Len(Invocations(r)) = 2

C1_Witness ==
  \E r \in Requests :
    /\ RetrySucceeded(r)
    /\ Invocations(r)[1].out.msg = MsgPost400
    /\ ret[r].kind = "ok"

\* the case of C2: the first and the retried invocation both fail with
\* transport errors
BothFailedWithTransport(r) ==
  /\ Len(Invocations(r)) >= 2
  /\ FailedWithTransport(Invocations(r)[1])
  /\ FailedWithTransport(Invocations(r)[2])

\* C2: one safeToolInvoke call invokes the tool at most twice and reconnects
\* at most once; when the first and the retried invocation both fail with
\* transport errors the call has thrown the second failure and made no third
\* invocation.
C2_AtMostOneRetry ==
  \A r \in Requests :
    /\ Len(Invocations(r)) <= 2
    /\ ReconnectsStarted(r) <= 1
    /\ BothFailedWithTransport(r) =>
         /\ pc[r] = "done"
         /\ ret[r] = Invocations(r)[2].out
         /\ ret[r].kind = "err"

C2_Witness ==
  \E r \in Requests :
    /\ BothFailedWithTransport(r)
    /\ pc[r] = "done"
    /\ Invocations(r)[1].out.msg # Invocations(r)[2].out.msg

\* the case of C3: the first invocation fails with an error that carries no
\* transport signature
FailedWithOther(r) ==
  /\ Len(Invocations(r)) >= 1
  /\ Invocations(r)[1].out.kind = "err"
  /\ ~HasTransportSignature(Invocations(r)[1].out.msg)

\* C3: when the invocation fails with an error without a transport signature
\* (an error with no message included), the call has thrown that same error,
\* no reconnect was started and the tool was not invoked a second time.
C3_OtherErrorsPropagate ==
  \A r \in Requests :
    FailedWithOther(r) =>
      /\ pc[r] = "done"
      /\ ret[r] = Invocations(r)[1].out
      /\ ReconnectsStarted(r) = 0
      /\ Len(Invocations(r)) = 1

C3_Witness ==
  \E r, q \in Requests :
    /\ FailedWithOther(r) /\ Invocations(r)[1].out.msg = MsgNone
    /\ FailedWithOther(q) /\ Invocations(q)[1].out.msg = MsgHttp500

-----------------------------------------------------------------------------
(* JSON.parse on the texts of the model.  The grammar covers objects,      *)
(* arrays, strings without escapes, unsigned integers and null, with JSON  *)
(* whitespace between tokens; every other text is a SyntaxError.           *)

JNull == [t |-> "null", n |-> 0, s |-> <<>>, keys |-> <<>>, items |-> <<>>]
JNum(n) == [t |-> "num", n |-> n, s |-> <<>>, keys |-> <<>>, items |-> <<>>]
JStr(s) == [t |-> "str", n |-> 0, s |-> s, keys |-> <<>>, items |-> <<>>]
JArr(items) == [t |-> "arr", n |-> 0, s |-> <<>>, keys |-> <<>>, items |-> items]
JObj(keys, items) == [t |-> "obj", n |-> 0, s |-> <<>>, keys |-> keys, items |-> items]

\* the value undefined: a missing property, a missing start_time
JUndef == [t |-> "undefined", n |-> 0, s |-> <<>>, keys |-> <<>>, items |-> <<>>]

\* obj[key] for a parsed value; undefined when the property is missing
Get(v, key) ==
  IF v.t = "obj" /\ \E i \in 1..Len(v.keys) : v.keys[i] = key
    THEN v.items[CHOOSE i \in 1..Len(v.keys) : v.keys[i] = key]
    ELSE JUndef

\* obj[key] = val while parsing: a repeated key keeps its place, the last
\* value wins
Put(keys, items, key, val) ==
  IF \E i \in 1..Len(keys) : keys[i] = key
    THEN [keys |-> keys,
          items |-> [items EXCEPT ![CHOOSE i \in 1..Len(keys) : keys[i] = key] = val]]
    ELSE [keys |-> Append(keys, key), items |-> Append(items, val)]

IsWs(c) == c \in {" ", "\n"}
Digits == <<"0", "1", "2", "3", "4", "5", "6", "7", "8", "9">>
IsDigit(c) == \E d \in 1..10 : Digits[d] = c
DigitVal(c) == (CHOOSE d \in 1..10 : Digits[d] = c) - 1

\* the first index >= i of s that holds no whitespace (Len(s) + 1 if none)
RECURSIVE SkipWs(_, _)
SkipWs(s, i) == IF i <= Len(s) /\ IsWs(s[i]) THEN SkipWs(s, i + 1) ELSE i

\* the first index >= i of s that holds no digit
RECURSIVE SkipDigits(_, _)
SkipDigits(s, i) == IF i <= Len(s) /\ IsDigit(s[i]) THEN SkipDigits(s, i + 1) ELSE i

\* the first index >= i of s that holds character c (Len(s) + 1 if none)
IndexOf(s, c, i) ==
  IF \E k \in i..Len(s) : s[k] = c
    THEN CHOOSE k \in i..Len(s) : s[k] = c /\ \A j \in i..(k - 1) : s[j] # c
    ELSE IF i > Len(s) THEN i ELSE Len(s) + 1

\* the number written by a string of digits
RECURSIVE ParseInt(_)
ParseInt(ds) ==
  IF ds = <<>> THEN 0 ELSE 10 * ParseInt(SubSeq(ds, 1, Len(ds) - 1)) + DigitVal(ds[Len(ds)])

PFail == [ok |-> FALSE, v |-> JUndef, i |-> 0]
POk(v, i) == [ok |-> TRUE, v |-> v, i |-> i]

StartsWithAt(s, i, w) == i + Len(w) - 1 <= Len(s) /\ SubSeq(s, i, i + Len(w) - 1) = w

\* a string literal at s[i] = '"': up to the next quote, no line break inside
ParseString(s, i) ==
  LET e == IndexOf(s, "\"", i + 1) IN
  IF e > Len(s) \/ \E k \in (i + 1)..(e - 1) : s[k] \in {"\n", "\\"}
    THEN PFail
    ELSE POk(JStr(SubSeq(s, i + 1, e - 1)), e + 1)

\* a number at s[i]: digits, no leading zero
ParseNumber(s, i) ==
  LET e == SkipDigits(s, i) IN
  IF s[i] = "0" /\ e > i + 1 THEN PFail ELSE POk(JNum(ParseInt(SubSeq(s, i, e - 1))), e)

RECURSIVE ParseValue(_, _), ParseElems(_, _, _), ParseMembers(_, _, _, _)

\* the value that starts at the first non-blank index >= i; .i is the index
\* after it
ParseValue(s, i) ==
  LET j == SkipWs(s, i) IN
  IF j > Len(s) THEN PFail
  ELSE IF s[j] = "{" THEN
    (IF SkipWs(s, j + 1) <= Len(s) /\ s[SkipWs(s, j + 1)] = "}"
       THEN POk(JObj(<<>>, <<>>), SkipWs(s, j + 1) + 1)
       ELSE ParseMembers(s, j + 1, <<>>, <<>>))
  ELSE IF s[j] = "[" THEN
    (IF SkipWs(s, j + 1) <= Len(s) /\ s[SkipWs(s, j + 1)] = "]"
       THEN POk(JArr(<<>>), SkipWs(s, j + 1) + 1)
       ELSE ParseElems(s, j + 1, <<>>))
  ELSE IF s[j] = "\"" THEN ParseString(s, j)
  ELSE IF IsDigit(s[j]) THEN ParseNumber(s, j)
  ELSE IF StartsWithAt(s, j, <<"n", "u", "l", "l">>) THEN POk(JNull, j + 4)
  ELSE PFail

\* the elements of an array from index i on, acc holding those before
ParseElems(s, i, acc) ==
  LET r == ParseValue(s, i)
      k == SkipWs(s, r.i)
  IN  IF ~r.ok \/ k > Len(s) THEN PFail
      ELSE IF s[k] = "," THEN ParseElems(s, k + 1, Append(acc, r.v))
      ELSE IF s[k] = "]" THEN POk(JArr(Append(acc, r.v)), k + 1)
      ELSE PFail

\* the members of an object from index i on
ParseMembers(s, i, keys, items) ==
  LET j == SkipWs(s, i)
      key == IF j <= Len(s) /\ s[j] = "\"" THEN ParseString(s, j) ELSE PFail
      c == SkipWs(s, key.i)
      r == ParseValue(s, c + 1)
      k == SkipWs(s, r.i)
      o == Put(keys, items, key.v.s, r.v)
  IN  IF ~key.ok \/ c > Len(s) \/ s[c] # ":" THEN PFail
      ELSE IF ~r.ok \/ k > Len(s) THEN PFail
      ELSE IF s[k] = "," THEN ParseMembers(s, k + 1, o.keys, o.items)
      ELSE IF s[k] = "}" THEN POk(JObj(o.keys, o.items), k + 1)
      ELSE PFail

\* JSON.parse(text): .ok is FALSE for a SyntaxError
JSONparse(s) ==
  LET r == ParseValue(s, 1) IN
  IF r.ok /\ SkipWs(s, r.i) > Len(s) THEN POk(r.v, r.i) ELSE PFail

\* String.prototype.trim
RECURSIVE TrimEnd(_)
TrimEnd(s) == IF s # <<>> /\ IsWs(s[Len(s)]) THEN TrimEnd(SubSeq(s, 1, Len(s) - 1)) ELSE s
trim(s) == TrimEnd(SubSeq(s, SkipWs(s, 1), Len(s)))

-----------------------------------------------------------------------------
(* The regular expressions of extractJSON *)

\* case folding of the /i flag, for the letters the texts of the model use
Fold(c) == IF c = "J" THEN "j" ELSE IF c = "S" THEN "s"
           ELSE IF c = "O" THEN "o" ELSE IF c = "N" THEN "n" ELSE c
FoldAll(s) == [i \in 1..Len(s) |-> Fold(s[i])]

\* the first index >= i where w occurs in s (Len(s) + 1 if nowhere)
IndexOfSeq(s, w, i) ==
  IF \E k \in i..Len(s) : StartsWithAt(s, k, w)
    THEN CHOOSE k \in i..Len(s) :
           StartsWithAt(s, k, w) /\ \A j \in i..(k - 1) : ~StartsWithAt(s, j, w)
    ELSE Len(s) + 1

\* the last index where character c occurs in s (0 if nowhere)
LastIndexOf(s, c, i) ==
  IF \E k \in 1..i : s[k] = c
    THEN CHOOSE k \in 1..i : s[k] = c /\ \A j \in (k + 1)..i : s[j] # c
    ELSE 0

Fence == <<"backtick","backtick","backtick">>
NoMatch == [found |-> FALSE, g |-> <<>>]
Match(g) == [found |-> TRUE, g |-> g]

\* text.match(/```<tag>\s*([\s\S]*?)\s*```/): the leftmost opening fence,
\* the blanks after it (greedy), then the shortest interior that blanks and
\* a closing fence follow; .g is capture group 1
FenceMatch(s, opener, folded) ==
  LET p == IndexOfSeq(IF folded THEN FoldAll(s) ELSE s, opener, 1)
      q == SkipWs(s, p + Len(opener))
      e == IndexOfSeq(s, Fence, q)
  IN  IF p <= Len(s) /\ e <= Len(s) THEN Match(TrimEnd(SubSeq(s, q, e - 1))) ELSE NoMatch

\* planner.js:347, text.match(/```json\s*([\s\S]*?)\s*```/i)
codeBlockMatch(s) == FenceMatch(s, <<"backtick","backtick","backtick","j","s","o","n">>, TRUE)

\* planner.js:358, text.match(/```\s*([\s\S]*?)\s*```/)
anyCodeBlockMatch(s) == FenceMatch(s, Fence, FALSE)

\* text.match(/<open>[\s\S]*<close>/), greedy: from the first opening
\* character to the last closing one; .g is the whole match
SpanMatch(s, open, close) ==
  LET p == IndexOf(s, open, 1)
      e == LastIndexOf(s, close, Len(s))
  IN  IF p <= Len(s) /\ e > p THEN Match(SubSeq(s, p, e)) ELSE NoMatch

\* planner.js:372, text.match(/\{[\s\S]*\}/)
jsonMatch(s) == SpanMatch(s, "{", "}")

\* planner.js:383, text.match(/\[[\s\S]*\]/)
arrayMatch(s) == SpanMatch(s, "[", "]")

-----------------------------------------------------------------------------
(* planner.js extractJSON, one attempt per strategy *)

\* planner.js:340-344
TryDirect(s) == JSONparse(s)

\* planner.js:347-355
TryCodeBlock(s) ==
  LET m == codeBlockMatch(s) IN
  IF m.found /\ m.g # <<>> THEN JSONparse(trim(m.g)) ELSE PFail

\* planner.js:358-369
TryAnyCodeBlock(s) ==
  LET m == anyCodeBlockMatch(s)
      content == trim(m.g)
  IN  IF m.found /\ m.g # <<>> /\ (StartsWithAt(content, 1, <<"{">>) \/ StartsWithAt(content, 1, <<"[">>))
        THEN JSONparse(content) ELSE PFail

\* planner.js:372-380
TryObject(s) ==
  LET m == jsonMatch(s) IN IF m.found THEN JSONparse(m.g) ELSE PFail

\* planner.js:388, `return { itinerary: arr }`
WrapArray(arr) == JObj(<<<<"i","t","i","n","e","r","a","r","y">>>>, <<arr>>)

\* planner.js:383-392
TryArray(s) ==
  LET m == arrayMatch(s)
      r == IF m.found THEN JSONparse(m.g) ELSE PFail
  IN  IF r.ok THEN POk(WrapArray(r.v), r.i) ELSE PFail

\* the attempt made at stage st of extractJSON
Attempt(st, s) ==
  CASE st = "direct" -> TryDirect(s)
    [] st = "codeBlock" -> TryCodeBlock(s)
    [] st = "anyCodeBlock" -> TryAnyCodeBlock(s)
    [] st = "object" -> TryObject(s)
    [] st = "array" -> TryArray(s)

\* the greedy object match moved before the code fences
NextStageObjectFirst(st) ==
  CASE st = "direct" -> "object"
    [] st = "object" -> "codeBlock"
    [] st = "codeBlock" -> "anyCodeBlock"
    [] st = "anyCodeBlock" -> "array"
    [] st = "array" -> "thrown"

\* the stage the code falls through to when the attempt of stage st fails
NextStage(st) ==
  CASE st = "direct" -> "codeBlock"
    [] st = "codeBlock" -> "anyCodeBlock"
    [] st = "anyCodeBlock" -> "object"
    [] st = "object" -> "array"
    [] st = "array" -> "thrown"

-----------------------------------------------------------------------------
(* planner.js extractJSON as a state machine over the response texts *)

\* the response texts: JSON or near-JSON bodies, bare or inside a code
\* fence, with or without prose before and after
Bodies ==
  { <<"{","\"","a","\"",":","1","}">>, <<"[","1",",","2",",","3","]">>, <<"[","{","\"","a","\"",":","1","}","]">>, <<"[","{","\"","a","\"",":","1","}",",","{","\"","a","\"",":","2","}","]">>,
    <<"{","\"","a","\"",":","[","1","]">>, <<"1","2">>, <<"n","o"," ","e","v","e","n","t","s">> }

Wraps ==
  { [open |-> <<>>, close |-> <<>>],
    [open |-> <<"backtick","backtick","backtick","j","s","o","n","\n">>, close |-> <<"\n","backtick","backtick","backtick">>],
    [open |-> <<"backtick","backtick","backtick","J","S","O","N"," ">>, close |-> <<"backtick","backtick","backtick">>],
    [open |-> <<"backtick","backtick","backtick","\n">>, close |-> <<"\n","backtick","backtick","backtick">>] }

Befores == { <<>>, <<"H","e","r","e",":"," ">>, <<"{","\"","b","\"",":","2","}"," ">> }
Afters == { <<>>, <<" ","o","k">>, <<" ","[","4","]">> }

ResponseTexts ==
  { b \o w.open \o body \o w.close \o a :
      b \in Befores, w \in Wraps, body \in Bodies, a \in Afters }

InitExtract ==
  /\ xText \in ResponseTexts
  /\ xStage = "direct"
  /\ xTried = <<>>
  /\ xResult = <<>>
  /\ InvIdle /\ tz = "UTC" /\ SIdle /\ EIdle /\ RIdle

\* one strategy of extractJSON: return its value if the attempt parses,
\* fall through to the next strategy otherwise
Try(st) ==
  /\ xTried' = Append(xTried, st)
  /\ IF Attempt(st, xText).ok
       THEN xStage' = "returned" /\ xResult' = <<Attempt(st, xText).v>>
       ELSE xStage' = NextStage(st) /\ xResult' = xResult
  /\ UNCHANGED xText
  /\ UNCHANGED notX

\* planner.js:340-344
DirectParse == xStage = "direct" /\ Try("direct")

\* planner.js:347-355
CodeBlockParse == xStage = "codeBlock" /\ Try("codeBlock")

\* planner.js:358-369
AnyCodeBlockParse == xStage = "anyCodeBlock" /\ Try("anyCodeBlock")

\* planner.js:372-380
ObjectParse == xStage = "object" /\ Try("object")

\* planner.js:383-392, and the throw of planner.js:397-402 when it fails
ArrayParse == xStage = "array" /\ Try("array")

ExtractNext ==
  \/ DirectParse
  \/ CodeBlockParse
  \/ AnyCodeBlockParse
  \/ ObjectParse
  \/ ArrayParse

SpecExtract == InitExtract /\ [][ExtractNext]_vars

-----------------------------------------------------------------------------
(* Properties of the itinerary call-site extractor *)

\* the strategies in the order the claim gives them
Chain == <<"direct", "codeBlock", "anyCodeBlock", "object", "array">>

Parses(k) == Attempt(Chain[k], xText).ok

ExtractEnded == xStage \in {"returned", "thrown"}

\* C10: extractJSON tries direct parse, the json fence, any fence whose
\* trimmed interior starts with { or [, the greedy object span and the greedy
\* array span in that order; it returns the value of the first of them that
\* applies and parses, and throws exactly when none parses.
C10_FirstStrategyThatParses ==
  /\ Len(xTried) <= Len(Chain)
  /\ xTried = SubSeq(Chain, 1, Len(xTried))
  /\ ~ExtractEnded /\ xStage # "idle" =>
       /\ Len(xTried) < Len(Chain)
       /\ xStage = Chain[Len(xTried) + 1]
       /\ \A k \in 1..Len(xTried) : ~Parses(k)
  /\ xStage = "returned" =>
       /\ xTried # <<>>
       /\ Parses(Len(xTried))
       /\ \A k \in 1..(Len(xTried) - 1) : ~Parses(k)
       /\ xResult = <<Attempt(Chain[Len(xTried)], xText).v>>
  /\ ExtractEnded => (xStage = "thrown" <=> \A k \in 1..Len(Chain) : ~Parses(k))

\* the array span is returned after the four strategies before it failed,
\* an object span among them that was there to try and did not parse
C10_Witness ==
  /\ xStage = "returned"
  /\ xTried = Chain
  /\ jsonMatch(xText).found

-----------------------------------------------------------------------------
(* Date: time values are minutes since 1970-01-01T00:00Z *)

NaN == [valid |-> FALSE, t |-> 0]
Time(t) == [valid |-> TRUE, t |-> t]

\* days since 1970-01-01 of the civil date y-m-d (proleptic Gregorian)
DaysFromCivil(y, m, d) ==
  LET yy == IF m <= 2 THEN y - 1 ELSE y
      era == yy \div 400
      yoe == yy - era * 400
      mp == (m + 9) % 12
      doy == (153 * mp + 2) \div 5 + d - 1
      doe == yoe * 365 + yoe \div 4 - yoe \div 100 + doy
  IN  era * 146097 + doe - 719468

\* the civil date of a day number
CivilFromDays(days) ==
  LET z == days + 719468
      era == z \div 146097
      doe == z - era * 146097
      yoe == (doe - doe \div 1460 + doe \div 36524 - doe \div 146096) \div 365
      doy == doe - (365 * yoe + yoe \div 4 - yoe \div 100)
      mp == (5 * doy + 2) \div 153
      m == IF mp < 10 THEN mp + 3 ELSE mp - 9
  IN  [y |-> yoe + era * 400 + (IF m <= 2 THEN 1 ELSE 0),
       m |-> m,
       d |-> doy - (153 * mp + 2) \div 5 + 1]

\* n written with at least w digits
RECURSIVE Pad(_, _)
Pad(n, w) ==
  IF w <= 1 /\ n < 10 THEN <<Digits[n + 1]>>
  ELSE Pad(n \div 10, w - 1) \o <<Digits[(n % 10) + 1]>>

AllDigits(s) == \A i \in 1..Len(s) : IsDigit(s[i])

\* the time zones the process may run in (the TZ of its environment)
TimeZones == {"UTC", "America/New_York"}

\* 2025-11-02T06:00Z, when America/New_York leaves daylight saving time
DstEnd == (DaysFromCivil(2025, 11, 2) * 24 + 6) * 60

\* minutes to add to a UTC time value for the local time of zone zone
\* (America/New_York as it is from March 2025 to March 2026)
LocalOffset(zone, t) ==
  IF zone = "UTC" THEN 0 ELSE IF t < DstEnd THEN -240 ELSE -300

\* the UTC time value of a local time; of the two readings of a repeated
\* hour the earlier one
LocalToUTC(zone, local) ==
  LET cands == {u \in {local, local + 240, local + 300} : u + LocalOffset(zone, u) = local}
  IN  CHOOSE u \in cands : \A w \in cands : u <= w

\* new Date(s) for a string s: "YYYY-MM-DD" is UTC midnight,
\* "YYYY-MM-DDTHH:mm" and "YYYY-MM-DDTHH:mm:ss" are local times; the other
\* strings of the model (no digits in them) are Invalid Date
ParseDate(zone, s) ==
  LET dateOk == /\ Len(s) >= 10
                /\ AllDigits(SubSeq(s, 1, 4)) /\ s[5] = "-"
                /\ AllDigits(SubSeq(s, 6, 7)) /\ s[8] = "-"
                /\ AllDigits(SubSeq(s, 9, 10))
      days == DaysFromCivil(ParseInt(SubSeq(s, 1, 4)), ParseInt(SubSeq(s, 6, 7)),
                            ParseInt(SubSeq(s, 9, 10)))
      timeOk == /\ Len(s) \in {16, 19}
                /\ s[11] = "T"
                /\ AllDigits(SubSeq(s, 12, 13)) /\ s[14] = ":"
                /\ AllDigits(SubSeq(s, 15, 16))
                /\ Len(s) = 19 => s[17] = ":" /\ AllDigits(SubSeq(s, 18, 19))
      mins == ParseInt(SubSeq(s, 12, 13)) * 60 + ParseInt(SubSeq(s, 15, 16))
  IN  IF dateOk /\ Len(s) = 10 THEN Time(days * 1440)
      ELSE IF dateOk /\ timeOk THEN Time(LocalToUTC(zone, days * 1440 + mins))
      ELSE NaN

\* date.toISOString().split("T")[0]
ISODate(t) ==
  LET c == CivilFromDays(t \div 1440)
  IN  Pad(c.y, 4) \o <<"-">> \o Pad(c.m, 2) \o <<"-">> \o Pad(c.d, 2)

\* date.setDate(date.getDate() + 1): the next local day, same local time
NextLocalDay(zone, t) == LocalToUTC(zone, t + LocalOffset(zone, t) + 1440)

\* scout.js:222-225, the loop of getDateRange from time value t
RECURSIVE DatesFrom(_, _, _)
DatesFrom(zone, t, end) ==
  IF t <= end THEN <<ISODate(t)>> \o DatesFrom(zone, NextLocalDay(zone, t), end) ELSE <<>>

\* null and undefined where a date string is expected
NullDate == <<"null">>
UndefinedDate == <<"undefined">>

\* new Date(v): null is converted to the number 0, the epoch; undefined to
\* NaN, Invalid Date; a string is parsed
NewDate(zone, v) ==
  IF v = NullDate THEN Time(0)
  ELSE IF v = UndefinedDate THEN NaN
  ELSE ParseDate(zone, v)

\* scout.js:217-228
getDateRange(zone, from, to) ==
  LET start == NewDate(zone, from)
      end == NewDate(zone, to)
  IN  IF start.valid /\ end.valid THEN DatesFrom(zone, start.t, end.t) ELSE <<>>

-----------------------------------------------------------------------------
(* Link Scout (scout.js) *)

\* how a generateContent call ends: it resolves with a response text or
\* rejects with an error
Resolve(text) == [kind |-> "text", text |-> text, msg |-> <<>>]
Reject(msg) == [kind |-> "err", text |-> <<>>, msg |-> msg]

\* ToBoolean of a parsed value
Truthy(v) ==
  CASE v.t \in {"undefined", "null"} -> FALSE
    [] v.t = "num" -> v.n # 0
    [] v.t = "str" -> v.s # <<>>
    [] OTHER -> TRUE

EmptyArray == JArr(<<>>)

\* scout.js:119-148
\* the first of the attempts that parsed, a failure when none did
FirstOk(attempts) ==
  IF \E k \in 1..Len(attempts) : attempts[k].ok
    THEN attempts[CHOOSE k \in 1..Len(attempts) :
                    attempts[k].ok /\ \A j \in 1..(k - 1) : ~attempts[j].ok]
    ELSE PFail

\* scout.js:119-148
ScoutExtractJSON(text) == FirstOk(<<TryDirect(text), TryCodeBlock(text), TryObject(text)>>)

MsgNoJsonScout == <<"C","o","u","l","d"," ","n","o","t"," ","e","x","t","r","a","c","t"," ","J","S","O","N"," ","f","r","o","m"," ","S","c","o","u","t"," ","r","e","s","p","o","n","s","e">>
MsgNullLinks == <<"C","a","n","n","o","t"," ","r","e","a","d"," ","p","r","o","p","e","r","t","i","e","s"," ","o","f"," ","n","u","l","l"," ","(","r","e","a","d","i","n","g"," ","'","l","i","n","k","s","'",")">>
MsgFetchFailed == <<"f","e","t","c","h"," ","f","a","i","l","e","d">>

\* what searchForInterest gives its caller
SearchResult(ok, interest, date, found, msg) ==
  [threw |-> FALSE, success |-> ok, interest |-> interest, date |-> date,
   links |-> found, error |-> msg]

\* the catch clause rethrowing instead of returning
SearchCatchRethrows(interest, date, msg) ==
  [threw |-> TRUE, success |-> FALSE, interest |-> interest, date |-> date,
   links |-> EmptyArray, error |-> msg]

\* scout.js:198-208, the catch clause of searchForInterest
SearchCatch(interest, date, msg) == SearchResult(FALSE, interest, date, EmptyArray, msg)

\* a || b
OrElse(a, b) == IF Truthy(a) THEN a ELSE b

\* scout.js:182-197, with r what extractJSON gave
SearchTry(interest, date, r) ==
  IF ~r.ok THEN SearchCatch(interest, date, MsgNoJsonScout)
  ELSE IF r.v.t = "null" THEN SearchCatch(interest, date, MsgNullLinks)
  ELSE SearchResult(TRUE, interest, date, OrElse(Get(r.v, <<"l","i","n","k","s">>), EmptyArray), <<>>)

\* scout.js:158-209 from the point where generateContent has ended with out
searchForInterest(interest, date, out) ==
  IF out.kind = "err" THEN SearchCatch(interest, date, out.msg)
  ELSE SearchTry(interest, date, ScoutExtractJSON(out.text))

\* scout.js:272-277: { ...link, interest, date, searchedAt }; the clock is
\* read as the number of the search
WithMeta(link, interest, date, at) ==
  LET a == Put(link.keys, link.items, <<"i","n","t","e","r","e","s","t">>, JStr(interest))
      b == Put(a.keys, a.items, <<"d","a","t","e">>, JStr(date))
      c == Put(b.keys, b.items, <<"s","e","a","r","c","h","e","d","A","t">>, JNum(at))
  IN  JObj(c.keys, c.items)

\* scout.js:270, `result.links && result.links.length > 0`
HasLinks(found) == (found.t = "arr" /\ found.items # <<>>) \/ (found.t = "str" /\ found.s # <<>>)

\* scout.js:271-278, the entries one search adds to allLinks
Collect(result, at) ==
  IF HasLinks(result.links)
    THEN [k \in 1..Len(result.links.items) |->
            WithMeta(result.links.items[k], result.interest, result.date, at)]
    ELSE <<>>

\* keeping the last entry of every url instead of the first
RECURSIVE UniqueLinksLastWins(_)
UniqueLinksLastWins(all) ==
  IF all = <<>> THEN <<>>
  ELSE LET rest == SubSeq(all, 2, Len(all)) IN
       IF \E k \in 1..Len(rest) : Get(rest[k], <<"u","r","l">>) = Get(all[1], <<"u","r","l">>)
         THEN UniqueLinksLastWins(rest)
         ELSE <<all[1]>> \o UniqueLinksLastWins(rest)

\* scout.js:286-294, the loop from entry k with the urls seen so far
RECURSIVE UniqueFrom(_, _, _)
UniqueFrom(all, k, seenUrls) ==
  IF k > Len(all) THEN <<>>
  ELSE IF Get(all[k], <<"u","r","l">>) \in seenUrls THEN UniqueFrom(all, k + 1, seenUrls)
  ELSE <<all[k]>> \o UniqueFrom(all, k + 1, seenUrls \cup {Get(all[k], <<"u","r","l">>)})

\* scout.js:285-294
UniqueLinks(all) == UniqueFrom(all, 1, {})

\* the (interest, date) of the k-th iteration of the loops at scout.js:263-264
Pair(k) ==
  [interest |-> interests[((k - 1) \div Len(dates)) + 1],
   date |-> dates[((k - 1) % Len(dates)) + 1]]

NumDays == 2

\* the k-th day after 2025-11-01, as "YYYY-MM-DD"
Day(k) == ISODate((DaysFromCivil(2025, 11, 1) + k) * 1440)

DateInputs == {Day(k) : k \in 1..NumDays} \cup {<<"s","o","o","n">>}

\* the day after the epoch
EpochEnd == ISODate(1440)

\* the pairs of startDate and endDate: two dates or a text that is no date,
\* a date and a missing one (undefined or null), and null with a date close
\* enough to the epoch for the range to be walked
DatePairs ==
  (DateInputs \X DateInputs)
    \cup {<<UndefinedDate, Day(1)>>, <<Day(1), UndefinedDate>>, <<Day(1), NullDate>>,
          <<NullDate, EpochEnd>>}

InterestLists == {<<<<"j","a","z","z">>>>, <<<<"j","a","z","z">>, <<"a","r","t">>>>}

\* the response texts of the search: two links; a fenced answer repeating a
\* link, with a link that carries its own interest and one without url; an
\* answer cut short; an object without links; null; links that are not a list
ScoutTexts ==
  { <<"{","\"","l","i","n","k","s","\"",":","[","{","\"","u","r","l","\"",":","\"","a","\"",",","\"","t","i","t","l","e","\"",":","\"","t","\"","}",",","{","\"","u","r","l","\"",":","\"","b","\"","}","]","}">>,
    <<"backtick","backtick","backtick","j","s","o","n","\n","{","\"","l","i","n","k","s","\"",":","[","{","\"","u","r","l","\"",":","\"","b","\"",",","\"","i","n","t","e","r","e","s","t","\"",":","\"","x","\"","}",",","{","\"","t","i","t","l","e","\"",":","\"","n","\"","}","]","}","\n","backtick","backtick","backtick">>,
    <<"{","\"","l","i","n","k","s","\"",":","[","{","\"","u","r","l","\"",":","\"","a","\"","}">>,
    <<"{","}">>,
    <<"n","u","l","l">>,
    <<"{","\"","l","i","n","k","s","\"",":","\"","n","o","n","e","\"","}">> }

\* scout.js:11, the number of links the prompt asks for
linksPerSearch == 20

\* a bare answer with n links, {"links":[{"url":"u1"},...,{"url":"un"}]}
RECURSIVE LinkTexts(_)
LinkTexts(n) ==
  IF n = 0 THEN <<>>
  ELSE LinkTexts(n - 1) \o (IF n > 1 THEN <<",">> ELSE <<>>)
       \o <<"{","\"","u","r","l","\"",":","\"","u">> \o Pad(n, 1) \o <<"\"","}">>
LinksText(n) == <<"{","\"","l","i","n","k","s","\"",":","[">> \o LinkTexts(n) \o <<"]","}">>

\* an upstream model that answers with one link more than it was asked for
ManyLinksTexts == {LinksText(linksPerSearch + 1)}

\* generateContent resolves with one of the texts, or rejects
ScoutOutcomes == {Resolve(t) : t \in modelTexts} \cup {Reject(MsgFetchFailed)}

InitScout ==
  /\ tz \in TimeZones
  /\ interests \in InterestLists
  /\ \E p \in DatePairs : startDate = p[1] /\ endDate = p[2]
  /\ dates = <<>> /\ spc = "start" /\ calls = <<>> /\ generated = <<>>
  /\ searchResults = <<>> /\ allLinks = <<>> /\ totalLinksFound = 0
  /\ modelTexts \in {ScoutTexts, ManyLinksTexts}
  /\ InvIdle /\ XIdle /\ EIdle /\ RIdle

\* scout.js:285-304: deduplicate and return
ScoutReturn ==
  /\ allLinks' = UniqueLinks(allLinks)
  /\ totalLinksFound' = Len(UniqueLinks(allLinks))
  /\ spc' = "done"

\* scout.js:239-266: scoutEvents runs to its first await
ScoutStart ==
  /\ spc = "start"
  /\ dates' = getDateRange(tz, startDate, endDate)
  /\ IF dates' = <<>>
       THEN ScoutReturn /\ UNCHANGED calls
       ELSE /\ calls' = <<[interest |-> interests[1], date |-> dates'[1]]>>
            /\ spc' = "await"
            /\ UNCHANGED <<allLinks, totalLinksFound>>
  /\ UNCHANGED <<interests, startDate, endDate, generated, searchResults, modelTexts>>
  /\ UNCHANGED notS

\* scout.js:172-209 and 266-281: the pending generateContent ends with out,
\* searchForInterest settles, scoutEvents takes its result
Searched(out, result) ==
  /\ generated' = Append(generated, out)
  /\ IF result.threw
       THEN spc' = "thrown" /\ UNCHANGED <<searchResults, allLinks>>
       ELSE /\ searchResults' = Append(searchResults, result)
            /\ IF HasLinks(result.links) /\ result.links.t # "arr"
                 THEN spc' = "thrown" /\ UNCHANGED allLinks
                 ELSE spc' = "delay" /\ allLinks' = allLinks \o Collect(result, Len(calls))
  /\ UNCHANGED <<interests, startDate, endDate, dates, calls, totalLinksFound, modelTexts>>
  /\ UNCHANGED notS

\* generateContent resolves or rejects
Generate ==
  /\ spc = "await"
  /\ \E out \in ScoutOutcomes :
       Searched(out, searchForInterest(calls[Len(calls)].interest, calls[Len(calls)].date, out))

\* scout.js:281-304: the 500 ms timer fires; the next search starts, or the
\* loops are over
ScoutDelay ==
  /\ spc = "delay"
  /\ IF Len(calls) < Len(interests) * Len(dates)
       THEN /\ calls' = Append(calls, Pair(Len(calls) + 1))
            /\ spc' = "await"
            /\ UNCHANGED <<allLinks, totalLinksFound>>
       ELSE ScoutReturn /\ UNCHANGED calls
  /\ UNCHANGED <<interests, startDate, endDate, dates, generated, searchResults, modelTexts>>
  /\ UNCHANGED notS

ScoutNext ==
  \/ ScoutStart
  \/ Generate
  \/ ScoutDelay

SpecScout == InitScout /\ [][ScoutNext]_vars

-----------------------------------------------------------------------------
(* Properties of the Link Scout *)

\* no strategy of extractJSON recovers JSON from the text
Unrecoverable(text) ==
  ~JSONparse(text).ok /\ ~TryCodeBlock(text).ok /\ ~TryObject(text).ok

\* the response texts of the model from which no JSON is recovered
UnrecoverableTexts == {t \in ScoutTexts \cup ManyLinksTexts : Unrecoverable(t)}

\* the k-th search failed: its call rejected, or its response is not JSON
SearchFailed(k) ==
  generated[k].kind = "err" \/ (generated[k].kind = "text" /\ generated[k].text \in UnrecoverableTexts)

\* the entries of allLinks that search k collected
CollectedBy(k) == SelectSeq(allLinks, LAMBDA e : Get(e, <<"s","e","a","r","c","h","e","d","A","t">>) = JNum(k))

\* C5: every (interest, day) pair whose generation call fails, or whose
\* response cannot be recovered to JSON, gets a result with no links, without
\* scoutEvents raising; the sweep goes on: the calls of the remaining pairs
\* are issued and scoutEvents returns.
C5_FailedSearchDegrades ==
  /\ \A k \in 1..Len(generated) :
       SearchFailed(k) =>
         /\ Len(searchResults) >= k
         /\ ~searchResults[k].success
         /\ searchResults[k].links = JArr(<<>>)
         /\ searchResults[k].interest = calls[k].interest
         /\ searchResults[k].date = calls[k].date
         /\ CollectedBy(k) = <<>>
         /\ ~(spc = "thrown" /\ k = Len(generated))
  /\ spc = "done" => Len(calls) = Len(interests) * Len(dates) /\ Len(generated) = Len(calls)

\* C5 witness: scoutEvents has returned; one search failed on a rejected
\* call, one on a response cut short, and a later search brought links
C5_Witness ==
  /\ spc = "done"
  /\ \E i, j, k \in 1..Len(generated) :
       /\ i < k /\ j < k
       /\ generated[i].kind = "err"
       /\ generated[j].kind = "text" /\ generated[j].text \in UnrecoverableTexts
       /\ searchResults[k].success
       /\ CollectedBy(k) # <<>>

\* the links collected by the searches, before deduplication
RECURSIVE CollectedUpTo(_)
CollectedUpTo(k) ==
  IF k = 0 THEN <<>> ELSE CollectedUpTo(k - 1) \o Collect(searchResults[k], k)

Url(e) == Get(e, <<"u","r","l">>)

\* the first entry of seq with the url u
FirstWithUrl(seq, u) ==
  CHOOSE i \in 1..Len(seq) : Url(seq[i]) = u /\ \A j \in 1..(i - 1) : Url(seq[j]) # u

\* C6: the returned allLinks holds exactly one entry per distinct url of the
\* collected links, that entry is the first collected with the url (with its
\* interest, date and metadata), the kept entries stay in collection order,
\* and totalLinksFound is the number of distinct urls.
C6_FirstSeenPerUrl ==
  spc = "done" =>
    LET all == CollectedUpTo(Len(searchResults))
        urls == {Url(all[i]) : i \in 1..Len(all)}
    IN  /\ \A i, j \in 1..Len(allLinks) : Url(allLinks[i]) = Url(allLinks[j]) => i = j
        /\ {Url(allLinks[i]) : i \in 1..Len(allLinks)} = urls
        /\ \A i \in 1..Len(allLinks) : allLinks[i] = all[FirstWithUrl(all, Url(allLinks[i]))]
        /\ \A i, j \in 1..Len(allLinks) :
             i < j => FirstWithUrl(all, Url(allLinks[i])) < FirstWithUrl(all, Url(allLinks[j]))
        /\ totalLinksFound = Cardinality(urls)

\* C6 witness: scoutEvents has returned; a url collected by two searches is
\* kept once, with the date of the first, and a link without url is kept
C6_Witness ==
  /\ spc = "done"
  /\ \E i, j \in 1..Len(searchResults) :
       /\ i < j
       /\ searchResults[i].date # searchResults[j].date
       /\ \E a \in 1..Len(searchResults[i].links.items), b \in 1..Len(searchResults[j].links.items) :
            /\ Url(searchResults[i].links.items[a]) = Url(searchResults[j].links.items[b])
            /\ Url(searchResults[i].links.items[a]) # JUndef
            /\ \E e \in 1..Len(allLinks) :
                 /\ Url(allLinks[e]) = Url(searchResults[j].links.items[b])
                 /\ Get(allLinks[e], <<"d","a","t","e">>) = JStr(searchResults[i].date)
  /\ \E e \in 1..Len(allLinks) : Url(allLinks[e]) = JUndef
  /\ totalLinksFound < Len(CollectedUpTo(Len(searchResults)))

ValidDate(s) == ParseDate("UTC", s).valid

\* the number of the calendar day a date string names
DayNumber(s) == ParseDate("UTC", s).t \div 1440

\* the calendar days from..to, both included
CalendarDays(from, to) ==
  [k \in 1..(DayNumber(to) - DayNumber(from) + 1) |-> ISODate((DayNumber(from) + k - 1) * 1440)]

\* C9: scoutEvents issues exactly one generation call for each (interest,
\* calendar day) pair with the day in [startDate, endDate], |interests| x
\* |days| calls in all, and pushes one searchResults entry per pair.
C9_OneCallPerPair ==
  (spc = "done" /\ ValidDate(startDate) /\ ValidDate(endDate)) =>
    LET days == CalendarDays(startDate, endDate) IN
      /\ Len(calls) = Len(interests) * Len(days)
      /\ \A i \in 1..Len(interests), j \in 1..Len(days) :
           calls[(i - 1) * Len(days) + j] = [interest |-> interests[i], date |-> days[j]]
      /\ Len(searchResults) = Len(calls)
      /\ \A k \in 1..Len(calls) :
           /\ searchResults[k].interest = calls[k].interest
           /\ searchResults[k].date = calls[k].date

-----------------------------------------------------------------------------
(* Array.prototype.sort as V8 runs it on arrays shorter than 64 elements:  *)
(* the initial run is found (and reversed if descending), the other        *)
(* elements are placed by binary insertion.  A comparator result of NaN    *)
(* counts as 0.                                                            *)

\* new Date(v) for a parsed value v
DateOf(v) ==
  CASE v.t = "str" -> ParseDate(tz, v.s)
    [] v.t = "null" -> Time(0)
    [] v.t = "num" -> Time(v.n \div 60000)
    [] OTHER -> NaN

\* a - b on two time values, NaN read as 0
Minus(a, b) == IF a.valid /\ b.valid THEN a.t - b.t ELSE 0

\* explorer.js:280-284 and api_server.js:838-842, the comparator
ByStartTime(a, b) == Minus(DateOf(Get(a, <<"s","t","a","r","t","_","t","i","m","e">>)), DateOf(Get(b, <<"s","t","a","r","t","_","t","i","m","e">>)))

\* the length of the run that starts the array, idx being the next element
RECURSIVE RunLength(_, _, _)
RunLength(a, idx, descending) ==
  IF idx > Len(a) THEN Len(a)
  ELSE IF descending = (ByStartTime(a[idx], a[idx - 1]) < 0) THEN RunLength(a, idx + 1, descending)
  ELSE idx - 1

Reverse(a) == [i \in 1..Len(a) |-> a[Len(a) + 1 - i]]

\* the array with its initial run made ascending, and the run's length
CountAndMakeRun(a, descending, n) ==
  [run |-> n,
   arr |-> IF descending THEN Reverse(SubSeq(a, 1, n)) \o SubSeq(a, n + 1, Len(a)) ELSE a]

\* where the pivot goes among a[left..right-1]
RECURSIVE InsertionPoint(_, _, _, _)
InsertionPoint(a, pivot, left, right) ==
  IF left >= right THEN left
  ELSE IF ByStartTime(pivot, a[left + (right - left) \div 2]) < 0
         THEN InsertionPoint(a, pivot, left, left + (right - left) \div 2)
         ELSE InsertionPoint(a, pivot, left + (right - left) \div 2 + 1, right)

MoveTo(a, from, to) ==
  SubSeq(a, 1, to - 1) \o <<a[from]>> \o SubSeq(a, to, from - 1) \o SubSeq(a, from + 1, Len(a))

RECURSIVE BinaryInsertionSort(_, _)
BinaryInsertionSort(a, start) ==
  IF start > Len(a) THEN a
  ELSE BinaryInsertionSort(MoveTo(a, start, InsertionPoint(a, a[start], 1, start)), start + 1)

SortRun(r) == BinaryInsertionSort(r.arr, r.run + 1)

\* explorer.js:280-284 and api_server.js:838-842
SortByStartTime(a) ==
  IF Len(a) < 2 THEN a
  ELSE SortRun(CountAndMakeRun(a, ByStartTime(a[2], a[1]) < 0,
                               RunLength(a, 3, ByStartTime(a[2], a[1]) < 0)))

-----------------------------------------------------------------------------
(* Link Explorer (explorer.js) *)

batchSize == 5

\* explorer.js:134-160
ExplorerExtractJSON(text) == FirstOk(<<TryDirect(text), TryCodeBlock(text), TryObject(text)>>)

MsgNoJsonExplorer == <<"C","o","u","l","d"," ","n","o","t"," ","e","x","t","r","a","c","t"," ","J","S","O","N"," ","f","r","o","m"," ","E","x","p","l","o","r","e","r"," ","r","e","s","p","o","n","s","e">>
MsgNullEvents == <<"C","a","n","n","o","t"," ","r","e","a","d"," ","p","r","o","p","e","r","t","i","e","s"," ","o","f"," ","n","u","l","l"," ","(","r","e","a","d","i","n","g"," ","'","v","a","l","i","d","_","e","v","e","n","t","s","'",")">>

\* what analyzeBatch gives its caller
AnalyzeResult(ok, found, rejected, count, msg) ==
  [success |-> ok, events |-> found, rejected |-> rejected, analyzed |-> count, error |-> msg]

\* the catch clause losing the links of the batch
AnalyzeCatchDropsLinks(batch, msg) ==
  AnalyzeResult(FALSE, EmptyArray, EmptyArray, JUndef, msg)

\* explorer.js:194-202, the catch clause of analyzeBatch
AnalyzeCatch(batch, msg) ==
  AnalyzeResult(FALSE, EmptyArray,
                JArr([k \in 1..Len(batch) |->
                        JObj(<<<<"u","r","l">>, <<"r","e","a","s","o","n">>>>, <<Get(batch[k], <<"u","r","l">>), JStr(msg)>>)]),
                JUndef, msg)

\* explorer.js:184-193, with r what extractJSON gave
AnalyzeTry(batch, r) ==
  IF ~r.ok THEN AnalyzeCatch(batch, MsgNoJsonExplorer)
  ELSE IF r.v.t = "null" THEN AnalyzeCatch(batch, MsgNullEvents)
  ELSE AnalyzeResult(TRUE,
                     OrElse(Get(r.v, <<"v","a","l","i","d","_","e","v","e","n","t","s">>), EmptyArray),
                     OrElse(Get(r.v, <<"r","e","j","e","c","t","e","d","_","l","i","n","k","s">>), EmptyArray),
                     OrElse(Get(r.v, <<"a","n","a","l","y","z","e","d","_","l","i","n","k","s">>), JNum(Len(batch))),
                     <<>>)

\* explorer.js:169-203 from the point where generateContent has ended with out
analyzeBatch(batch, out) ==
  IF out.kind = "err" THEN AnalyzeCatch(batch, out.msg)
  ELSE AnalyzeTry(batch, ExplorerExtractJSON(out.text))

Min(a, b) == IF a < b THEN a ELSE b

\* explorer.js:232-236
NumBatches(n) == (n + batchSize - 1) \div batchSize
\* a slice that ends one link late, so that batches overlap
BatchWithOneMore(all, b) == SubSeq(all, (b - 1) * batchSize + 1, Min(b * batchSize + 1, Len(all)))
Batch(all, b) == SubSeq(all, (b - 1) * batchSize + 1, Min(b * batchSize, Len(all)))

\* `${v}` for a parsed value
TemplateString(v) ==
  CASE v.t = "str" -> v.s
    [] v.t = "num" -> Pad(v.n, 1)
    [] v.t = "null" -> <<"n","u","l","l">>
    [] v.t = "undefined" -> <<"u","n","d","e","f","i","n","e","d">>
    [] OTHER -> <<"[","o","b","j","e","c","t"," ","O","b","j","e","c","t","]">>

\* explorer.js:272
EventKey(e) == TemplateString(Get(e, <<"n","a","m","e">>)) \o <<"-">> \o TemplateString(Get(e, <<"s","t","a","r","t","_","t","i","m","e">>))

\* explorer.js:271-277, the loop from event k with the keys seen so far
RECURSIVE UniqueEventsFrom(_, _, _)
UniqueEventsFrom(all, k, seen) ==
  IF k > Len(all) THEN <<>>
  ELSE IF EventKey(all[k]) \in seen THEN UniqueEventsFrom(all, k + 1, seen)
  ELSE <<all[k]>> \o UniqueEventsFrom(all, k + 1, seen \cup {EventKey(all[k])})

\* explorer.js:267-277
UniqueEvents(all) == UniqueEventsFrom(all, 1, {})

\* the elements that push(...v) adds for a list v
Items(v) == IF v.t = "arr" THEN v.items ELSE <<>>

MaxLinks == 12

\* the links handed to the Explorer: u1, u2, ...
Link(k) == JObj(<<<<"u","r","l">>>>, <<JStr(<<"u">> \o Pad(k, 1))>>)

\* the response texts of the analysis: three events out of time order, one
\* of them without a date, a rejected link and a count; a fenced answer with
\* two events, one with its target_date; two dated events, the later one first, with the source and
\* provenance properties of the output format, one source.url being that of
\* the first link and one that of no link; prose
ExplorerTexts ==
  { <<"{","\"","v","a","l","i","d","_","e","v","e","n","t","s","\"",":","[","{","\"","n","a","m","e","\"",":","\"","K","\"",",","\"","s","t","a","r","t","_","t","i","m","e","\"",":","\"","2","0","2","5","-","1","1","-","0","2","T","1","8",":","0","0",":","0","0","\"","}",",","{","\"","n","a","m","e","\"",":","\"","J","-","N","\"",",","\"","s","t","a","r","t","_","t","i","m","e","\"",":","\"","T","B","D","\"","}",",","{","\"","n","a","m","e","\"",":","\"","J","\"",",","\"","s","t","a","r","t","_","t","i","m","e","\"",":","\"","2","0","2","5","-","1","1","-","0","2","T","0","9",":","3","0",":","0","0","\"","}","]",",","\"","r","e","j","e","c","t","e","d","_","l","i","n","k","s","\"",":","[","{","\"","u","r","l","\"",":","\"","u","9","\"",",","\"","r","e","a","s","o","n","\"",":","\"","p","a","s","t","\"","}","]",",","\"","a","n","a","l","y","z","e","d","_","l","i","n","k","s","\"",":","4","}">>,
    <<"backtick","backtick","backtick","j","s","o","n","\n","{","\"","v","a","l","i","d","_","e","v","e","n","t","s","\"",":","[","{","\"","n","a","m","e","\"",":","\"","J","\"",",","\"","s","t","a","r","t","_","t","i","m","e","\"",":","\"","N","-","T","B","D","\"","}",",","{","\"","n","a","m","e","\"",":","\"","J","\"",",","\"","s","t","a","r","t","_","t","i","m","e","\"",":","\"","2","0","2","5","-","1","1","-","0","2","T","0","9",":","3","0",":","0","0","\"",",","\"","l","o","c","a","t","i","o","n","\"",":","\"","x","\"",",","\"","t","a","r","g","e","t","_","d","a","t","e","\"",":","\"","2","0","2","5","-","1","1","-","0","2","\"","}","]","}","\n","backtick","backtick","backtick">>,
    <<"{","\"","v","a","l","i","d","_","e","v","e","n","t","s","\"",":","[","{","\"","n","a","m","e","\"",":","\"","L","\"",",","\"","s","t","a","r","t","_","t","i","m","e","\"",":","\"","2","0","2","5","-","1","1","-","0","3","T","1","0",":","0","0",":","0","0","\"",",","\"","s","o","u","r","c","e","\"",":","{","\"","u","r","l","\"",":","\"","u","1","\"","}",",","\"","t","a","r","g","e","t","_","d","a","t","e","\"",":","\"","2","0","2","5","-","1","1","-","0","3","\"","}",",","{","\"","n","a","m","e","\"",":","\"","M","\"",",","\"","s","t","a","r","t","_","t","i","m","e","\"",":","\"","2","0","2","5","-","1","1","-","0","2","\"",",","\"","s","o","u","r","c","e","\"",":","{","\"","u","r","l","\"",":","\"","u","0","\"","}",",","\"","i","n","t","e","r","e","s","t","_","m","a","t","c","h","e","d","\"",":","\"","j","a","z","z","\"","}","]","}">>,
    <<"I"," ","c","o","u","l","d"," ","n","o","t"," ","o","p","e","n"," ","t","h","e"," ","l","i","n","k","s",".">> }

ExplorerOutcomes == {Resolve(t) : t \in ExplorerTexts} \cup {Reject(MsgFetchFailed)}

InitExplore ==
  /\ tz \in TimeZones
  /\ links \in {[k \in 1..n |-> Link(k)] : n \in 0..MaxLinks}
  /\ epc = "start" /\ analyzed = <<>>
  /\ allEvents = <<>> /\ allRejected = <<>> /\ totalAnalyzed = 0
  /\ events = <<>> /\ itinerary = <<>> /\ coverage = <<>> /\ itineraryFile = <<>>
  /\ InvIdle /\ XIdle /\ SOff /\ RIdle
  /\ startDate = Day(1)
  /\ endDate \in {Day(k) : k \in 1..NumDays}

\* explorer.js:216-225 and 227-249: an empty list is answered at once,
\* otherwise the first batch goes to analyzeBatch
ExploreStart ==
  /\ epc = "start"
  /\ epc' = IF links = <<>> THEN "done" ELSE "await"
  /\ UNCHANGED <<links, analyzed, allEvents, allRejected, totalAnalyzed, events, itinerary, coverage, itineraryFile>>
  /\ UNCHANGED notE

\* explorer.js:250-264 and 267-297: exploreLinks takes the result of a batch;
\* after the last batch it deduplicates, sorts and returns
Explored(out, result) ==
  /\ analyzed' = Append(analyzed, out)
  /\ allEvents' = IF result.success THEN allEvents \o Items(result.events) ELSE allEvents
  /\ allRejected' = allRejected \o Items(result.rejected)
  /\ totalAnalyzed' = IF result.success THEN totalAnalyzed + result.analyzed.n ELSE totalAnalyzed
  /\ IF Len(analyzed) + 1 < NumBatches(Len(links))
       THEN epc' = "delay" /\ UNCHANGED events
       ELSE epc' = "done" /\ events' = SortByStartTime(UniqueEvents(allEvents'))
  /\ UNCHANGED <<links, itinerary, coverage, itineraryFile>>
  /\ UNCHANGED notE

\* explorer.js:169-203: the pending generateContent resolves or rejects and
\* analyzeBatch settles
Analyze ==
  /\ epc = "await"
  /\ \E out \in ExplorerOutcomes :
       Explored(out, analyzeBatch(Batch(links, Len(analyzed) + 1), out))

\* explorer.js:262-264: the 1000 ms timer fires, the next batch goes out
ExploreDelay ==
  /\ epc = "delay"
  /\ epc' = "await"
  /\ UNCHANGED <<links, analyzed, allEvents, allRejected, totalAnalyzed, events, itinerary, coverage, itineraryFile>>
  /\ UNCHANGED notE

\* String.prototype.split on a one-character separator, from index i
RECURSIVE SplitFrom(_, _, _)
SplitFrom(s, c, i) ==
  IF IndexOf(s, c, i) > Len(s) THEN <<SubSeq(s, i, Len(s))>>
  ELSE <<SubSeq(s, i, IndexOf(s, c, i) - 1)>> \o SplitFrom(s, c, IndexOf(s, c, i) + 1)

split(s, c) == SplitFrom(s, c, 1)

\* parseInt(s) for blanks followed by unsigned digits; NaN without a digit
NotANumber == [threw |-> FALSE, nan |-> TRUE, n |-> 0]
Number(n) == [threw |-> FALSE, nan |-> FALSE, n |-> n]
Threw == [threw |-> TRUE, nan |-> TRUE, n |-> 0]
parseInt(s) ==
  IF SkipDigits(s, SkipWs(s, 1)) = SkipWs(s, 1) THEN NotANumber
  ELSE Number(ParseInt(SubSeq(s, SkipWs(s, 1), SkipDigits(s, SkipWs(s, 1)) - 1)))

\* api_server.js:756, 760, 764: parseInt(e.start_time.split("T")[1].split(":")[0]);
\* without a "T" the second part is undefined and .split throws
HourOfParts(parts) == IF Len(parts) < 2 THEN Threw ELSE parseInt(split(parts[2], ":")[1])
HourOf(e) == HourOfParts(split(Get(e, <<"s","t","a","r","t","_","t","i","m","e">>).s, "T"))

\* a morning that starts at 10:00
IsMorningFromTen(hour) == hour >= 10 /\ hour < 12

\* api_server.js:757
IsMorning(hour) == hour >= 8 /\ hour < 12

\* an afternoon that ends at 14:00
IsShortAfternoon(hour) == hour >= 12 /\ hour < 14

\* api_server.js:761
IsAfternoon(hour) == hour >= 12 /\ hour < 17

\* api_server.js:765
IsEvening(hour) == hour >= 17

InBand(band, h) ==
  /\ ~h.nan
  /\ CASE band = "morning" -> IsMorning(h.n)
       [] band = "afternoon" -> IsAfternoon(h.n)
       [] band = "evening" -> IsEvening(h.n)

\* dayEvents.some(...) from event k: "t", "f", or "x" when the callback throws
\* before an event answers true
RECURSIVE SomeFrom(_, _, _)
SomeStep(dayEvents, k, band, h) ==
  IF h.threw THEN "x" ELSE IF InBand(band, h) THEN "t" ELSE SomeFrom(dayEvents, k + 1, band)
SomeFrom(dayEvents, k, band) ==
  IF k > Len(dayEvents) THEN "f" ELSE SomeStep(dayEvents, k, band, HourOf(dayEvents[k]))

\* api_server.js:741-746: the event goes to the bucket of its date
InBucket(e, date) ==
  /\ Get(e, <<"s","t","a","r","t","_","t","i","m","e">>).t = "str"
  /\ Get(e, <<"s","t","a","r","t","_","t","i","m","e">>).s # <<>>
  /\ split(Get(e, <<"s","t","a","r","t","_","t","i","m","e">>).s, "T")[1] = date

\* api_server.js:752-767, the entry of one date
CoverageEntry(date, dayEvents) ==
  [date |-> date,
   count |-> Len(dayEvents),
   events |-> dayEvents,
   hasMorning |-> SomeFrom(dayEvents, 1, "morning"),
   hasAfternoon |-> SomeFrom(dayEvents, 1, "afternoon"),
   hasEvening |-> SomeFrom(dayEvents, 1, "evening")]

\* api_server.js:735-736: a date set twice keeps its first place among the keys
Keys(ds) == SelectSeq([k \in 1..Len(ds) |-> IF \E j \in 1..(k - 1) : ds[j] = ds[k] THEN <<>> ELSE ds[k]],
                      LAMBDA d : d # <<>>)

CoverageOf(evs, keys) ==
  [k \in 1..Len(keys) |->
     CoverageEntry(keys[k], SelectSeq(evs, LAMBDA e : InBucket(e, keys[k])))]

\* the call throws when a start_time that is not a string is split, or when
\* a callback of some() throws
CoverageResult(evs, entries) ==
  [threw |-> \/ \E k \in 1..Len(evs) :
                  Truthy(Get(evs[k], <<"s","t","a","r","t","_","t","i","m","e">>)) /\ Get(evs[k], <<"s","t","a","r","t","_","t","i","m","e">>).t # "str"
             \/ \E k \in 1..Len(entries) :
                  "x" \in {entries[k].hasMorning, entries[k].hasAfternoon, entries[k].hasEvening},
   entries |-> [k \in 1..Len(entries) |->
                  [date |-> entries[k].date,
                   count |-> entries[k].count,
                   events |-> entries[k].events,
                   hasMorning |-> entries[k].hasMorning = "t",
                   hasAfternoon |-> entries[k].hasAfternoon = "t",
                   hasEvening |-> entries[k].hasEvening = "t"]]]

\* api_server.js:727-771
analyzeEventCoverage(evs, from, to) ==
  CoverageResult(evs, CoverageOf(evs, Keys(getDateRange(tz, from, to))))

\* api_server.js:847-873: the coverage is computed and generateItinerary
\* returns, or analyzeEventCoverage throws and generateItinerary rejects
\* api_server.js:682, const { interest_matched, target_date, ...cleanEvent } = event:
\* the own properties of the event other than the two named ones
Rest(e, dropped) ==
  LET kept == SelectSeq([k \in 1..Len(e.keys) |-> k], LAMBDA k : e.keys[k] \notin dropped)
  IN  JObj([k \in 1..Len(kept) |-> e.keys[kept[k]]], [k \in 1..Len(kept) |-> e.items[kept[k]]])

\* api_server.js:677-701: the events written to itinerary.json
cleanedEvents(evs) ==
  [k \in 1..Len(evs) |-> Rest(evs[k], {<<"i","n","t","e","r","e","s","t","_","m","a","t","c","h","e","d">>,
                                       <<"t","a","r","g","e","t","_","d","a","t","e">>})]

\* api_server.js:847-873: the coverage is computed, the cleaned events are
\* saved and generateItinerary returns the events as they are; it throws
\* when the coverage analysis does
Organized(sorted, cov) ==
  IF cov.threw
    THEN epc' = "failed" /\ itinerary' = <<>> /\ coverage' = <<>> /\ itineraryFile' = <<>>
    ELSE /\ epc' = "organized" /\ itinerary' = sorted /\ coverage' = cov.entries
         /\ itineraryFile' = cleanedEvents(sorted)

\* api_server.js:824-873: generateItinerary, which calls the Explorer only
\* with links, sorts the events again, analyzes their coverage and returns
Organize ==
  /\ epc = "done"
  /\ links # <<>>
  /\ Organized(SortByStartTime(events),
               analyzeEventCoverage(SortByStartTime(events), startDate, endDate))
  /\ UNCHANGED <<links, analyzed, allEvents, allRejected, totalAnalyzed, events>>
  /\ UNCHANGED notE

ExploreNext ==
  \/ ExploreStart
  \/ Analyze
  \/ ExploreDelay
  \/ Organize

SpecExplore == InitExplore /\ [][ExploreNext]_vars

-----------------------------------------------------------------------------
(* Properties of the Link Explorer *)

\* what extractJSON recovers from each response text of the model
Recovered == [t \in ExplorerTexts |-> ExplorerExtractJSON(t)]

\* batch b failed as a whole: its call rejected, or its response is not JSON
BatchFailed(b) ==
  analyzed[b].kind = "err" \/ (analyzed[b].kind = "text" /\ ~Recovered[analyzed[b].text].ok)

\* the failure message of a failed batch
FailureMessage(b) ==
  IF analyzed[b].kind = "err" THEN analyzed[b].msg ELSE MsgNoJsonExplorer

\* the links of batch b
LinksOf(b) == {links[k] : k \in ((b - 1) * batchSize + 1)..Min(b * batchSize, Len(links))}

\* the rejections batch b should add: for a failed batch one {url, reason}
\* per link of the batch, in the order of the links; otherwise the
\* rejected_links of its response
RejectionsOf(b) ==
  IF BatchFailed(b)
    THEN [k \in 1..(Min(b * batchSize, Len(links)) - (b - 1) * batchSize) |->
            JObj(<<<<"u","r","l">>, <<"r","e","a","s","o","n">>>>,
                 <<Get(links[(b - 1) * batchSize + k], <<"u","r","l">>), JStr(FailureMessage(b))>>)]
    ELSE Items(Get(Recovered[analyzed[b].text].v, <<"r","e","j","e","c","t","e","d","_","l","i","n","k","s">>))

\* the events batch b should add
EventsOf(b) ==
  IF BatchFailed(b) THEN <<>> ELSE Items(Get(Recovered[analyzed[b].text].v, <<"v","a","l","i","d","_","e","v","e","n","t","s">>))

RECURSIVE RejectionsUpTo(_), EventsUpTo(_)
RejectionsUpTo(b) == IF b = 0 THEN <<>> ELSE RejectionsUpTo(b - 1) \o RejectionsOf(b)
EventsUpTo(b) == IF b = 0 THEN <<>> ELSE EventsUpTo(b - 1) \o EventsOf(b)

\* C4: a batch that fails as a whole (its call raises, or its response cannot
\* be recovered to JSON) adds every link of the batch, and only those, to the
\* rejected list as {url, reason} with the failure message, and adds no
\* event; the other batches add their events and rejections as usual.
C4_FailedBatchRejected ==
  /\ allRejected = RejectionsUpTo(Len(analyzed))
  /\ allEvents = EventsUpTo(Len(analyzed))
  /\ \A b \in 1..Len(analyzed) :
       BatchFailed(b) =>
         /\ {Get(r, <<"u","r","l">>) : r \in {RejectionsOf(b)[k] : k \in 1..Len(RejectionsOf(b))}}
              = {Get(l, <<"u","r","l">>) : l \in LinksOf(b)}
         /\ Len(RejectionsOf(b)) = Cardinality(LinksOf(b))

\* C4 witness: 12 links in batches of 5, 5 and 2; batch 2 failed and left 5
\* rejections, for the links u6..u10; batches 1 and 3 brought events and a
\* rejection of their own
C4_Witness ==
  /\ epc = "done"
  /\ Len(links) = 12
  /\ Len(analyzed) = 3
  /\ ~BatchFailed(1) /\ BatchFailed(2) /\ ~BatchFailed(3)
  /\ EventsOf(1) # <<>> /\ EventsOf(3) # <<>>
  /\ RejectionsOf(1) # <<>>
  /\ Len(RejectionsOf(2)) = 5
  /\ Len(allRejected) = Len(RejectionsOf(1)) + 5 + Len(RejectionsOf(3))
  /\ \E k \in 1..Len(allRejected) :
       allRejected[k] = JObj(<<<<"u","r","l">>, <<"r","e","a","s","o","n">>>>, <<JStr(<<"u","1","0">>), JStr(FailureMessage(2))>>)

\* the (name, start_time) pair of an event
PairOf(e) == <<Get(e, <<"n","a","m","e">>), Get(e, <<"s","t","a","r","t","_","t","i","m","e">>)>>

\* C7: exploreLinks returns exactly one event per (name, start_time) pair
\* that occurs among the merged events, and the event kept for a pair is its
\* first occurrence in batch order.
C7_OnePerNameAndStart ==
  epc \in {"done", "organized"} =>
    \A k \in 1..Len(allEvents) :
      /\ Cardinality({i \in 1..Len(events) : PairOf(events[i]) = PairOf(allEvents[k])}) = 1
      /\ (\A j \in 1..(k - 1) : PairOf(allEvents[j]) # PairOf(allEvents[k]))
           => \E i \in 1..Len(events) : events[i] = allEvents[k]

\* the start of an event as a time value
StartOf(e) == DateOf(Get(e, <<"s","t","a","r","t","_","t","i","m","e">>))

\* no event of the list starts before an event placed ahead of it (events
\* without a valid start_time are not compared)
NonDecreasing(seq) ==
  \A i, j \in 1..Len(seq) :
    (i < j /\ StartOf(seq[i]).valid /\ StartOf(seq[j]).valid) => StartOf(seq[i]).t <= StartOf(seq[j]).t

\* C8: the events exploreLinks returns, and the itinerary the orchestrator
\* returns, are sorted non-decreasing by start_time, whatever events the
\* batches produce.
C8_SortedByStartTime ==
  /\ epc \in {"done", "organized"} => NonDecreasing(events)
  /\ epc = "organized" => NonDecreasing(itinerary)

-----------------------------------------------------------------------------
(* Properties of planner.js extractJSON at the itinerary call site *)

\* C11: a response whose JSON content is an array, the bare text "[1,2,3]"
\* included, is returned wrapped as {itinerary: <array>}: extractJSON never
\* returns a bare array, and a text that is itself an array comes back as
\* the object holding that array.
C11_ArrayReturnedWrapped ==
  xStage = "returned" =>
    /\ xResult[1].t # "arr"
    /\ (JSONparse(xText).ok /\ JSONparse(xText).v.t = "arr")
         => xResult = <<WrapArray(JSONparse(xText).v)>>

-----------------------------------------------------------------------------
(* Phase 3 of generateItinerary over the events an Explorer run may return *)

MaxEvents == 3

Event(name, start) == JObj(<<<<"n","a","m","e">>, <<"s","t","a","r","t","_","t","i","m","e">>>>, <<JStr(name), JStr(start)>>)

\* events of the first day at 07:15, 09:30, 14:00 and 19:00, one of the
\* second day, one with a date without time, one whose start_time is not a
\* date, one without start_time
CoverageEvents ==
  { Event(<<"A">>, Day(1) \o <<"T","0","7",":","1","5",":","0","0">>),
    Event(<<"B">>, Day(1) \o <<"T","0","9",":","3","0",":","0","0">>),
    Event(<<"C">>, Day(1) \o <<"T","1","4",":","0","0",":","0","0">>),
    Event(<<"D">>, Day(1) \o <<"T","1","9",":","0","0",":","0","0">>),
    Event(<<"E">>, Day(2) \o <<"T","1","1",":","0","0",":","0","0">>),
    Event(<<"F">>, Day(1)),
    Event(<<"G">>, <<"T","B","D">>),
    JObj(<<<<"n","a","m","e">>>>, <<JStr(<<"H">>)>>) }

EventLists == UNION {[1..n -> CoverageEvents] : n \in 0..MaxEvents}

\* exploreLinks has returned `events` for a request over startDate..endDate
InitCoverage ==
  /\ tz \in TimeZones
  /\ startDate = Day(1)
  /\ endDate \in {Day(k) : k \in 1..NumDays}
  /\ events \in EventLists
  /\ allEvents = events
  /\ links = <<Link(1)>> /\ epc = "done" /\ analyzed = <<>>
  /\ allRejected = <<>> /\ totalAnalyzed = 0
  /\ itinerary = <<>> /\ coverage = <<>> /\ itineraryFile = <<>>
  /\ InvIdle /\ XIdle /\ SOff /\ RIdle

SpecCoverage == InitCoverage /\ [][Organize]_vars

-----------------------------------------------------------------------------
(* Properties of the coverage analysis *)

HasStartText(e) == Get(e, <<"s","t","a","r","t","_","t","i","m","e">>).t = "str"

\* the date portion of a start_time text: what stands before the first "T"
DatePart(s) == SubSeq(s, 1, Cardinality({k \in 1..Len(s) : \A j \in 1..k : s[j] # "T"}))

\* the event carries a time part: "T" and two digits of the hour after the date
HasClock(e) ==
  /\ HasStartText(e)
  /\ Len(Get(e, <<"s","t","a","r","t","_","t","i","m","e">>).s) >= Len(DatePart(Get(e, <<"s","t","a","r","t","_","t","i","m","e">>).s)) + 6
  /\ IsDigit(Get(e, <<"s","t","a","r","t","_","t","i","m","e">>).s[Len(DatePart(Get(e, <<"s","t","a","r","t","_","t","i","m","e">>).s)) + 2])
  /\ IsDigit(Get(e, <<"s","t","a","r","t","_","t","i","m","e">>).s[Len(DatePart(Get(e, <<"s","t","a","r","t","_","t","i","m","e">>).s)) + 3])

\* "HH:mm" of an event with a time part
ClockOf(e) ==
  SubSeq(Get(e, <<"s","t","a","r","t","_","t","i","m","e">>).s, Len(DatePart(Get(e, <<"s","t","a","r","t","_","t","i","m","e">>).s)) + 2,
         Len(DatePart(Get(e, <<"s","t","a","r","t","_","t","i","m","e">>).s)) + 6)

StartHour(e) == 10 * DigitVal(ClockOf(e)[1]) + DigitVal(ClockOf(e)[2])

\* the input events whose start_time names the day
EventsOn(day) == {i \in 1..Len(events) : HasStartText(events[i]) /\ DatePart(Get(events[i], <<"s","t","a","r","t","_","t","i","m","e">>).s) = day}

\* C12: analyzeEventCoverage returns exactly one entry per calendar day of
\* [startDate, endDate], days without events included, and the count of an
\* entry is the number of input events whose start_time date portion is
\* that day.
C12_OneEntryPerDay ==
  epc = "organized" =>
    /\ Len(coverage) = Len(CalendarDays(startDate, endDate))
    /\ \A k \in 1..Len(coverage) :
         /\ coverage[k].date = CalendarDays(startDate, endDate)[k]
         /\ coverage[k].count = Cardinality(EventsOn(coverage[k].date))

\* C13: in every coverage entry hasMorning holds iff some event of the day
\* starts at an hour h with 8 <= h < 12, hasAfternoon iff 12 <= h < 17,
\* hasEvening iff h >= 17; an event before 08:00 sets no flag.
C13_FlagsFollowStartHour ==
  epc = "organized" =>
    \A k \in 1..Len(coverage) :
      LET hours == {StartHour(events[i]) : i \in {j \in EventsOn(coverage[k].date) : HasClock(events[j])}}
      IN  /\ coverage[k].hasMorning <=> \E h \in hours : 8 <= h /\ h < 12
          /\ coverage[k].hasAfternoon <=> \E h \in hours : 12 <= h /\ h < 17
          /\ coverage[k].hasEvening <=> \E h \in hours : h >= 17

\* C13 witness: a day whose events are one at 07:15 and one at 09:30 has the
\* morning flag alone; the coverage was returned
C13_Witness ==
  /\ epc = "organized"
  /\ \E k \in 1..Len(coverage) :
       /\ {ClockOf(events[i]) : i \in EventsOn(coverage[k].date)} = {<<"0","7",":","1","5">>, <<"0","9",":","3","0">>}
       /\ coverage[k].hasMorning /\ ~coverage[k].hasAfternoon /\ ~coverage[k].hasEvening

\* the input is three events, at 09:30, 14:00 and 19:00 of the given day
ThreeEventsOn(day) ==
  /\ Len(events) = 3
  /\ \A i \in 1..3 : HasClock(events[i]) /\ DatePart(Get(events[i], <<"s","t","a","r","t","_","t","i","m","e">>).s) = day
  /\ {ClockOf(events[i]) : i \in 1..3} = {<<"0","9",":","3","0">>, <<"1","4",":","0","0">>, <<"1","9",":","0","0">>}

\* C14 as stated: events at 09:30, 14:00 and 19:00 on one day give that day
\* hasMorning = false, hasAfternoon = true, hasEvening = true, count = 3.
C14_MorningFalse ==
  epc = "organized" =>
    \A k \in 1..Len(coverage) :
      ThreeEventsOn(coverage[k].date) =>
        /\ ~coverage[k].hasMorning
        /\ coverage[k].hasAfternoon /\ coverage[k].hasEvening /\ coverage[k].count = 3

\* C14 amended: events at 09:30, 14:00 and 19:00 on one day give that day
\* hasMorning = true (hour 9 lies in 8..11), hasAfternoon = true,
\* hasEvening = true, count = 3.
C14_MorningTrue ==
  epc = "organized" =>
    \A k \in 1..Len(coverage) :
      ThreeEventsOn(coverage[k].date) =>
        /\ coverage[k].hasMorning
        /\ coverage[k].hasAfternoon /\ coverage[k].hasEvening /\ coverage[k].count = 3

\* C14 witness: the coverage of such a day was returned
C14_Witness ==
  /\ epc = "organized"
  /\ \E k \in 1..Len(coverage) : ThreeEventsOn(coverage[k].date) /\ coverage[k].count = 3

\* the start_time is missing or is no date with a time part
Malformed(e) == ~HasClock(e)

\* C15: analyzeEventCoverage never fails: an event whose start_time is
\* missing or malformed (a date without time part, say) is in no bucket,
\* the coverage is returned all the same, and the event is kept in the
\* itinerary.
C15_CoverageNeverFails ==
  /\ epc # "failed"
  /\ epc = "organized" =>
       \A i \in 1..Len(events) :
         Malformed(events[i]) =>
           /\ \A k \in 1..Len(coverage) :
                \A j \in 1..Len(coverage[k].events) : coverage[k].events[j] # events[i]
           /\ \E j \in 1..Len(itinerary) : itinerary[j] = events[i]

-----------------------------------------------------------------------------
(* The HTTP routes (api_server.js)                                          *)
(*                                                                          *)
(* A route handler runs up to its next await.  scoutEvents and exploreLinks *)
(* are the components modelled above; here they are calls that return, the  *)
(* Scout any list of links and the Explorer any list of events it can       *)
(* produce.  `upstream` records the calls in the order they are issued.     *)

\* the JSON body a route answers with: res.status(status).json({...});
\* success is "none" when the body has no such property
Reply(status, success, error, example, result) ==
  [status |-> status, success |-> success, error |-> error, example |-> example,
   result |-> result]

\* the body of a successful generation: itinerary and itinerary_by_day
Itinerary(evs, byDay) == [itinerary |-> evs, itinerary_by_day |-> byDay]

\* sendEvent(type, {...}): one server-sent event; tag is its phase or message
Frame(type, tag) == [type |-> type, tag |-> tag]

MsgCityInterests == <<"c","i","t","y"," ","a","n","d"," ","i","n","t","e","r","e","s","t","s"," ","a","r","e"," ","r","e","q","u","i","r","e","d">>
MsgOneInterest == <<"A","t"," ","l","e","a","s","t"," ","o","n","e"," ","i","n","t","e","r","e","s","t"," ","i","s"," ","r","e","q","u","i","r","e","d">>
MsgNoLinks == <<"N","o"," ","e","v","e","n","t"," ","l","i","n","k","s"," ","f","o","u","n","d"," ","d","u","r","i","n","g"," ","s","e","a","r","c","h">>
MsgNoEvents == <<"N","o"," ","e","v","e","n","t","s"," ","f","o","u","n","d"," ","f","o","r"," ","y","o","u","r"," ","i","n","t","e","r","e","s","t","s">>
MsgEditRequired == <<"e","d","i","t","_","r","e","q","u","e","s","t"," ","a","n","d"," ","c","u","r","r","e","n","t","_","a","c","t","i","v","i","t","y"," ","a","r","e"," ","r","e","q","u","i","r","e","d">>
MsgSplitNotAFunction == <<"i","n","t","e","r","e","s","t","s",".","s","p","l","i","t"," ","i","s"," ","n","o","t"," ","a"," ","f","u","n","c","t","i","o","n">>
MsgSplitOfUndefined == <<"C","a","n","n","o","t"," ","r","e","a","d"," ","p","r","o","p","e","r","t","i","e","s"," ","o","f"," ","u","n","d","e","f","i","n","e","d"," ","(","r","e","a","d","i","n","g"," ","'","s","p","l","i","t","'",")">>
MsgOperationOfNull == <<"C","a","n","n","o","t"," ","r","e","a","d"," ","p","r","o","p","e","r","t","i","e","s"," ","o","f"," ","n","u","l","l"," ","(","r","e","a","d","i","n","g"," ","'","o","p","e","r","a","t","i","o","n","'",")">>

\* api_server.js:713-718
parseInterests(s) ==
  SelectSeq([k \in 1..Len(split(s, ",")) |-> trim(split(s, ",")[k])], LAMBDA i : i # <<>>)

\* api_server.js:1100, 918: if (!city || !interests)
MissingCityOnly(b) == ~Truthy(b.city)
MissingCityOrInterests(b) == ~Truthy(b.city) \/ ~Truthy(b.interests)

\* api_server.js:1182: if (!edit_request || !current_activity)
MissingEditFields(b) == ~Truthy(b.edit_request) \/ ~Truthy(b.current_activity)

\* the handler has answered without a call
Answered(resp, fr) ==
  /\ rpc' = "responded" /\ upstream' = upstream
  /\ response' = resp /\ frames' = fr
  /\ UNCHANGED <<interests, startDate, endDate>>

\* api_server.js:1126-1132, 942-948: scoutEvents is called with the parsed
\* interests and the dates of the body
ScoutCalled(b, interestArray, fr, resp) ==
  /\ rpc' = "scout" /\ upstream' = Append(upstream, "scout")
  /\ interests' = interestArray
  /\ startDate' = b.start_date.s /\ endDate' = b.end_date.s
  /\ response' = resp /\ frames' = fr

\* api_server.js:1092-1124, POST /api/generate-itinerary up to its await;
\* parseInterests of a value that is not a string throws a TypeError, which
\* the handler's catch answers with status 500
PostGenerateItinerary(b) ==
  /\ rpc = "idle"
  /\ route' = "generate" /\ reqBody' = b
  /\ IF MissingCityOrInterests(b)
       THEN Answered(Reply(400, "none", MsgCityInterests, TRUE, <<>>), frames)
     ELSE IF b.interests.t # "str"
       THEN Answered(Reply(500, "none", MsgSplitNotAFunction, FALSE, <<>>), frames)
     ELSE IF parseInterests(b.interests.s) = <<>>
       THEN Answered(Reply(400, "none", MsgOneInterest, FALSE, <<>>), frames)
     ELSE ScoutCalled(b, parseInterests(b.interests.s), frames, response)
  /\ UNCHANGED <<dates, spc, calls, generated, searchResults, allLinks, totalLinksFound, modelTexts>>
  /\ UNCHANGED <<invVars, xVars, tz, eVars, edited>>

\* api_server.js:896-948, POST /api/generate-itinerary-stream up to its
\* await: the stream is opened with a "connected" event before the body is
\* looked at
PostGenerateItineraryStream(b) ==
  /\ rpc = "idle"
  /\ route' = "stream" /\ reqBody' = b
  /\ IF MissingCityOrInterests(b)
       THEN Answered(Reply(200, "none", <<>>, FALSE, <<>>),
                     <<Frame("connected", <<>>), Frame("error", MsgCityInterests)>>)
     ELSE IF b.interests.t # "str"
       THEN Answered(Reply(200, "none", <<>>, FALSE, <<>>),
                     <<Frame("connected", <<>>), Frame("error", MsgSplitNotAFunction)>>)
     ELSE IF parseInterests(b.interests.s) = <<>>
       THEN Answered(Reply(200, "none", <<>>, FALSE, <<>>),
                     <<Frame("connected", <<>>), Frame("error", MsgOneInterest)>>)
     ELSE ScoutCalled(b, parseInterests(b.interests.s),
                      <<Frame("connected", <<>>), Frame("progress", <<"s","t","a","r","t">>),
                        Frame("progress", <<"s","c","o","u","t">>)>>,
                      Reply(200, "none", <<>>, FALSE, <<>>))
  /\ UNCHANGED <<dates, spc, calls, generated, searchResults, allLinks, totalLinksFound, modelTexts>>
  /\ UNCHANGED <<invVars, xVars, tz, eVars, edited>>

\* api_server.js:810-817 with 1134-1136 and 1160-1168: without links
\* generateItinerary returns {success: false, message}, the route throws an
\* Error with that message and its catch answers with status 500;
\* api_server.js:983-987: the stream route sends an "error" event
NoLinks ==
  /\ rpc' = "responded" /\ upstream' = upstream /\ links' = links
  /\ IF route = "generate"
       THEN response' = Reply(500, "none", MsgNoLinks, FALSE, <<>>) /\ frames' = frames
       ELSE response' = response /\ frames' = Append(frames, Frame("error", MsgNoEvents))

\* api_server.js:824-828, 1003-1007: exploreLinks is called with the links
ExplorerCalled(ls) ==
  /\ rpc' = "explorer" /\ upstream' = Append(upstream, "explorer") /\ links' = ls
  /\ response' = response
  /\ frames' = IF route = "stream"
                 THEN frames \o <<Frame("progress", <<"s","c","o","u","t","_","c","o","m","p","l","e","t","e">>), Frame("progress", <<"e","x","p","l","o","r","e","r">>)>>
                 ELSE frames

\* scoutEvents has returned scoutResults with allLinks = ls
ScoutReturned(ls) ==
  /\ rpc = "scout"
  /\ allLinks' = ls /\ totalLinksFound' = Len(ls)
  /\ IF Len(ls) = 0 THEN NoLinks ELSE ExplorerCalled(ls)
  /\ UNCHANGED <<interests, startDate, endDate, dates, spc, calls, generated, searchResults, modelTexts>>
  /\ UNCHANGED <<epc, analyzed, allEvents, allRejected, totalAnalyzed, events, itinerary,
                 coverage, itineraryFile>>
  /\ UNCHANGED <<invVars, xVars, tz, route, reqBody, edited>>

\* the message of a failed fs.appendFileSync
MsgWriteFailed == <<"E","M","F","I","L","E",":"," ","t","o","o"," ","m","a","n","y"," ","o","p","e","n"," ","f","i","l","e","s",","," ","o","p","e","n">>

\* the error the catch of the handler gets, none when the try block ends:
\* the coverage analysis threw, or logger.saveAll() (api_server.js:703-705,
\* an fs.appendFileSync) threw after the response was built
Caught(cov, saved) ==
  IF cov.threw THEN <<MsgSplitOfUndefined>>
  ELSE IF ~saved THEN <<MsgWriteFailed>>
  ELSE <<>>

\* api_server.js:1139-1168, 1039-1087: the response of the generate routes
\* once the events are organized. The stream route sends its "complete"
\* event before logger.saveAll(), the generate route answers after it; a
\* throw ends in the catch of the handler, which writes to the log before it
\* answers, and whose own throw leaves the request unanswered
Served(sorted, cov, saved, logged) ==
  /\ rpc' = IF Caught(cov, saved) # <<>> /\ ~logged THEN "rejected" ELSE "responded"
  /\ IF route = "generate"
       THEN /\ frames' = frames
            /\ response' = IF Caught(cov, saved) = <<>>
                             THEN Reply(200, "true", <<>>, FALSE, Itinerary(sorted, cov.entries))
                           ELSE IF logged THEN Reply(500, "none", Caught(cov, saved)[1], FALSE, <<>>)
                           ELSE response
       ELSE /\ frames' = frames \o <<Frame("progress", <<"o","r","g","a","n","i","z","e">>)>>
                         \o (IF cov.threw THEN <<>> ELSE <<Frame("complete", <<"I","t","i","n","e","r","a","r","y"," ","r","e","a","d","y","!">>)>>)
                         \o (IF Caught(cov, saved) # <<>> /\ logged
                               THEN <<Frame("error", Caught(cov, saved)[1])>> ELSE <<>>)
            /\ response' = IF cov.threw THEN response
                           ELSE Reply(200, "true", <<>>, FALSE, Itinerary(sorted, cov.entries))

\* exploreLinks has returned explorerResults with events = evs; phase 3 of
\* generateItinerary (api_server.js:835-873; 1031-1037 in the stream route)
\* and the response follow without an await
ExplorerReturned(evs, saved, logged) ==
  /\ rpc = "explorer"
  /\ upstream' = upstream
  /\ events' = evs
  /\ Organized(SortByStartTime(evs), analyzeEventCoverage(SortByStartTime(evs), startDate, endDate))
  /\ Served(SortByStartTime(evs), analyzeEventCoverage(SortByStartTime(evs), startDate, endDate),
            saved, logged)
  /\ UNCHANGED <<links, analyzed, allEvents, allRejected, totalAnalyzed>>
  /\ UNCHANGED <<invVars, xVars, tz, sVars, route, reqBody, edited>>

\* api_server.js:1174-1214, POST /api/edit-itinerary up to its await:
\* processEditRequest issues its generateContent call (explorer.js:418-426)
PostEditItinerary(b) ==
  /\ rpc = "idle"
  /\ route' = "edit" /\ reqBody' = b
  /\ IF MissingEditFields(b)
       THEN /\ rpc' = "responded" /\ upstream' = upstream
            /\ response' = Reply(400, "none", MsgEditRequired, TRUE, <<>>)
       ELSE /\ rpc' = "editor" /\ upstream' = Append(upstream, "model")
            /\ response' = response
  /\ UNCHANGED <<invVars, xVars, tz, sVars, eVars, edited, frames>>

\* what generateContent gives the Editor: response.text and the text of the
\* first part of the first candidate (explorer.js:429-432), or a rejection
EditResponse(text, part) == [kind |-> "text", text |-> text, part |-> part, msg |-> <<>>]
EditReject(msg) == [kind |-> "err", text |-> <<>>, part |-> <<>>, msg |-> msg]

MsgEmptyResponse == <<"A","I"," ","m","o","d","e","l"," ","r","e","t","u","r","n","e","d"," ","e","m","p","t","y"," ","r","e","s","p","o","n","s","e","."," ","P","l","e","a","s","e"," ","t","r","y"," ","a","g","a","i","n",".">>
MsgInvalidJson == <<"M","o","d","e","l"," ","d","i","d"," ","n","o","t"," ","r","e","t","u","r","n"," ","v","a","l","i","d"," ","J","S","O","N",":"," ">>
MsgNoJsonFound == <<"N","o"," ","J","S","O","N"," ","f","o","u","n","d"," ","i","n"," ","r","e","s","p","o","n","s","e",":"," ">>

\* what processEditRequest gives its caller
EditReturn(v) == [threw |-> FALSE, v |-> v, msg |-> <<>>]
EditThrow(msg) == [threw |-> TRUE, v |-> JUndef, msg |-> msg]

\* String.prototype.substring(0, n)
substring(s, n) == SubSeq(s, 1, Min(n, Len(s)))

\* explorer.js:429-432: let text = response.text; if (!text && part) text = part
EditText(r) == IF r.text # <<>> THEN r.text ELSE r.part

\* explorer.js:445-452: the fenced block, undefined while nothing is parsed
EditCodeBlock(text) ==
  IF codeBlockMatch(text).found /\ codeBlockMatch(text).g # <<>>
       /\ JSONparse(trim(codeBlockMatch(text).g)).ok
    THEN JSONparse(trim(codeBlockMatch(text).g)).v
    ELSE JUndef

\* explorer.js:455-472: text.slice(indexOf("{"), lastIndexOf("}") + 1)
EditBraces(text) ==
  IF IndexOf(text, "{", 1) <= Len(text) /\ LastIndexOf(text, "}", Len(text)) > IndexOf(text, "{", 1)
    THEN IF JSONparse(SubSeq(text, IndexOf(text, "{", 1), LastIndexOf(text, "}", Len(text)))).ok
           THEN EditReturn(JSONparse(SubSeq(text, IndexOf(text, "{", 1), LastIndexOf(text, "}", Len(text)))).v)
           ELSE EditThrow(MsgInvalidJson \o substring(text, 200))
    ELSE EditThrow(MsgNoJsonFound \o substring(text, 200))

\* explorer.js:440-475
EditParse(text) ==
  IF JSONparse(text).ok THEN EditReturn(JSONparse(text).v)
  ELSE IF Truthy(EditCodeBlock(text)) THEN EditReturn(EditCodeBlock(text))
  ELSE EditBraces(text)

\* explorer.js:351-480, processEditRequest once generateContent has ended
\* with r: the catch logs and throws the error again
processEditRequest(r) ==
  IF r.kind = "err" THEN EditThrow(r.msg)
  ELSE IF EditText(r) = <<>> THEN EditThrow(MsgEmptyResponse)
  ELSE EditParse(EditText(r))

\* api_server.js:1224-1231: the catch of the edit route
EditFailedRetries(msg) ==
  /\ rpc' = "editor" /\ upstream' = Append(upstream, "model")
  /\ response' = response
EditFailed(msg) ==
  /\ rpc' = "responded" /\ upstream' = upstream
  /\ response' = Reply(500, "false", msg, FALSE, <<>>)

\* api_server.js:1207-1231 after the await, with res what processEditRequest
\* gave; reading editResult.operation of null throws; the properties of the
\* result are spread over success: true
EditAnswered(res) ==
  IF res.threw THEN EditFailed(res.msg)
  ELSE IF res.v.t = "null" THEN EditFailed(MsgOperationOfNull)
  ELSE /\ rpc' = "responded" /\ upstream' = upstream
       /\ response' = Reply(200, IF res.v.t = "obj" /\ Get(res.v, <<"s","u","c","c","e","s","s">>).t # "undefined"
                                  THEN "overridden" ELSE "true",
                            <<>>, FALSE, res.v)

\* generateContent has ended with r
EditorReturned(r) ==
  /\ rpc = "editor"
  /\ edited' = r
  /\ EditAnswered(processEditRequest(r))
  /\ UNCHANGED <<invVars, xVars, tz, sVars, eVars, route, reqBody, frames>>

\* req.body; a property the request lacks is undefined
Body(city, ints, from, to, request, activity) ==
  [city |-> city, interests |-> ints, start_date |-> from, end_date |-> to,
   edit_request |-> request, current_activity |-> activity]

\* bodies of the generate routes: city missing, empty or given; interests
\* missing, empty, only separators, one, two, or an array instead of a string
GenerateBodies ==
  { Body(c, i, JStr(Day(1)), JStr(Day(NumDays)), JUndef, JUndef) :
      c \in {JUndef, JStr(<<>>), JStr(<<"N","Y","C">>)},
      i \in {JUndef, JStr(<<>>), JStr(<<" ",","," ">>), JStr(<<"j","a","z","z">>), JStr(<<"j","a","z","z",","," ","a","r","t">>),
             JArr(<<JStr(<<"j","a","z","z">>)>>)} }

\* bodies of the edit route: request missing, empty or given; activity
\* missing, null or given
EditBodies ==
  { Body(JUndef, JUndef, JUndef, JUndef, r, a) :
      r \in {JUndef, JStr(<<>>), JStr(<<"l","a","t","e","r">>), JStr(<<"s","w","a","p"," ","i","t">>)},
      a \in {JUndef, JNull, JObj(<<<<"n","a","m","e">>>>, <<JStr(<<"M","o","M","A">>)>>)} }

\* what scoutEvents can return as allLinks
ScoutLinkLists == {<<>>, <<Link(1)>>}

\* how the Editor's generateContent call can end: bare JSON, a fenced
\* answer, JSON inside prose, prose, broken JSON, the JSON value null, a
\* fenced null, no text at all, text only in the candidate's part, a rejection
EditOutcomes ==
  { EditResponse(<<"{","\"","o","p","e","r","a","t","i","o","n","\"",":","\"","u","p","d","a","t","e","_","t","i","m","e","\"",",","\"","c","h","a","n","g","e","_","s","u","m","m","a","r","y","\"",":","\"","L","a","t","e","r","\"","}">>, <<>>),
    EditResponse(<<"backtick","backtick","backtick","j","s","o","n","\n","{","\"","o","p","e","r","a","t","i","o","n","\"",":","\"","r","e","p","l","a","c","e","\"","}","\n","backtick","backtick","backtick">>, <<>>),
    EditResponse(<<"S","u","r","e",":"," ","{","\"","o","p","e","r","a","t","i","o","n","\"",":","\"","r","e","m","o","v","e","\"","}"," ","d","o","n","e">>, <<>>),
    EditResponse(<<"I"," ","c","a","n","n","o","t"," ","d","o"," ","t","h","a","t",".">>, <<>>),
    EditResponse(<<"{","o","p","e","r","a","t","i","o","n",":"," ","r","e","p","l","a","c","e","}">>, <<>>),
    EditResponse(<<"n","u","l","l">>, <<>>),
    EditResponse(<<"backtick","backtick","backtick","j","s","o","n","\n","n","u","l","l","\n","backtick","backtick","backtick">>, <<>>),
    EditResponse(<<>>, <<>>),
    EditResponse(<<>>, <<"{","\"","o","p","e","r","a","t","i","o","n","\"",":","\"","r","e","p","l","a","c","e","\"","}">>),
    EditReject(MsgFetchFailed) }

InitServe == InvIdle /\ XIdle /\ tz = "UTC" /\ SIdle /\ EIdle /\ RIdle

ServeNext ==
  \/ \E b \in GenerateBodies : PostGenerateItinerary(b)
  \/ \E b \in GenerateBodies : PostGenerateItineraryStream(b)
  \/ \E b \in EditBodies : PostEditItinerary(b)
  \/ \E ls \in ScoutLinkLists : ScoutReturned(ls)
  \/ \E l \in EventLists, saved, logged \in BOOLEAN :
       ExplorerReturned(SortByStartTime(UniqueEvents(l)), saved, logged)
  \/ \E r \in EditOutcomes : EditorReturned(r)

SpecServe == InitServe /\ [][ServeNext]_vars

-----------------------------------------------------------------------------
(* Properties of the routes *)

\* the request has been answered with an error: a 4xx or 5xx status, or an
\* "error" event as the last event of the stream
ErrorResponse ==
  \/ response.status >= 400
  \/ frames # <<>> /\ frames[Len(frames)].type = "error"

\* C16: when the Scout returns no links the Explorer is not called and the
\* request ends with an outcome that is not an error response
C16_NoLinksIsNotAnError ==
  rpc = "responded" /\ upstream = <<"scout">> /\ allLinks = <<>> =>
    /\ \A k \in 1..Len(upstream) : upstream[k] # "explorer"
    /\ ~ErrorResponse

\* a required property the body lacks: missing, null or the empty string
Lacks(v) == v.t \in {"undefined", "null"} \/ (v.t = "str" /\ v.s = <<>>)

\* a string of interests in which nothing but separators and blanks is written
ParsesToNothing(v) == v.t = "str" /\ \A k \in 1..Len(v.s) : v.s[k] \in {",", " "}

LacksRequiredField ==
  IF route = "edit" THEN Lacks(reqBody.edit_request) \/ Lacks(reqBody.current_activity)
  ELSE Lacks(reqBody.city) \/ Lacks(reqBody.interests) \/ ParsesToNothing(reqBody.interests)

\* the answer tells the client that its request is at fault: status 400 on
\* the JSON routes; on the stream route, whose status is sent with the first
\* event, an "error" event naming the requirement right after "connected"
ClientError ==
  IF route = "stream"
    THEN /\ Len(frames) = 2 /\ frames[2].type = "error"
         /\ frames[2].tag \in {MsgCityInterests, MsgOneInterest}
    ELSE response.status = 400 /\ response.error \in {MsgCityInterests, MsgOneInterest, MsgEditRequired}

\* C17: a request that lacks city or interests (generate routes), edit_request
\* or current_activity (edit route), or whose interests parse to an empty
\* list, is answered with a client error and no upstream call is issued for it
C17_MissingFieldIsClientError ==
  route # "none" /\ LacksRequiredField =>
    /\ rpc = "responded"
    /\ upstream = <<>>
    /\ ClientError

\* C17 witness: a generate request whose interests are only separators was
\* answered with status 400
C17_Witness ==
  /\ rpc = "responded" /\ route = "generate"
  /\ ~Lacks(reqBody.city) /\ reqBody.interests.s = <<" ",","," ">>
  /\ response.status = 400 /\ response.error = MsgOneInterest /\ upstream = <<>>

\* the text has no JSON reading: not as a whole, not in its fenced block, not
\* between its first "{" and its last "}"
Unparseable(text) ==
  /\ ~JSONparse(text).ok
  /\ ~(codeBlockMatch(text).found /\ JSONparse(trim(codeBlockMatch(text).g)).ok)
  /\ ~(\E i \in 1..Len(text) : \E j \in i..Len(text) :
         /\ text[i] = "{" /\ \A k \in 1..(i - 1) : text[k] # "{"
         /\ text[j] = "}" /\ \A k \in (j + 1)..Len(text) : text[k] # "}"
         /\ JSONparse(SubSeq(text, i, j)).ok)

\* the Editor's call failed, returned no text, or text without a JSON reading
EditCallFailed(r) ==
  \/ r.kind = "err"
  \/ r.kind = "text" /\ r.text = <<>> /\ r.part = <<>>
  \/ r.kind = "text" /\ Unparseable(IF r.text # <<>> THEN r.text ELSE r.part)

EditCallsFailing == {r \in EditOutcomes : EditCallFailed(r)}

-----------------------------------------------------------------------------
(* Properties of the events the Explorer returns *)

\* event.source.url, undefined when the event names no source or no url
SourceUrl(e) == Get(Get(e, <<"s","o","u","r","c","e">>), <<"u","r","l">>)

\* C19: every event exploreLinks returns has a source.url that is null (or
\* names none) or is the url of one of the links it was given
C19_SourceUrlIsAnInputLink ==
  epc \in {"done", "organized"} =>
    \A i \in 1..Len(events) :
      \/ SourceUrl(events[i]).t \in {"null", "undefined"}
      \/ \E k \in 1..Len(links) : SourceUrl(events[i]) = Url(links[k])

\* the event has the property, whatever its value
Carries(e, key) == e.t = "obj" /\ \E i \in 1..Len(e.keys) : e.keys[i] = key

Provenance(e) == Carries(e, <<"i","n","t","e","r","e","s","t","_","m","a","t","c","h","e","d">>) \/ Carries(e, <<"t","a","r","g","e","t","_","d","a","t","e">>)

\* C20: no event returned by exploreLinks and no event of the itinerary that
\* generateItinerary returns for the response carries interest_matched or
\* target_date
C20_NoProvenanceReturned ==
  /\ epc \in {"done", "organized"} => \A i \in 1..Len(events) : ~Provenance(events[i])
  /\ epc = "organized" => \A i \in 1..Len(itinerary) : ~Provenance(itinerary[i])

-----------------------------------------------------------------------------
(* Properties of the recovery of the resilient invoker *)

\* the reconnect of request r has failed: getTools() rejected, or a required
\* tool was missing
ReconnectFailed(r) == Len(Reconnects(r)) >= 1 /\ Reconnects(r)[1].out.kind = "err"

\* C21: when initializeMCP raises during the recovery of a call, also when a
\* required tool is missing, safeToolInvoke has thrown that error and the
\* tool is not invoked a second time
C21_FailedReconnectPropagates ==
  \A r \in Requests :
    ReconnectFailed(r) =>
      /\ pc[r] = "done"
      /\ ret[r] = Reconnects(r)[1].out
      /\ Len(Invocations(r)) = 1

\* C21 witness: the reconnects of both kinds have failed, one for a missing
\* tool and one for a rejected getTools()
C21_Witness ==
  \E r, q \in Requests :
    /\ ReconnectFailed(r) /\ ret[r] = Err(MsgToolsNotFound) /\ Len(Invocations(r)) = 1
    /\ ReconnectFailed(q) /\ ret[q] = Err(MsgRefused) /\ Len(Invocations(q)) = 1

\* request r is invoking the tool again after its reconnect
Retrying(r) == pc[r] = "invoke" /\ attempt[r] = 2

\* C26: whatever the interleaving of two requests at their await points,
\* the retry of a request is invoked on the handle of a tool of an
\* initialised client, never on a missing handle
C26_RetryOnInitialisedHandle ==
  \A r \in Requests :
    Retrying(r) => tool[r] # Undefined /\ tool[r].client \in 1..mcpClient

-----------------------------------------------------------------------------
(* Properties of the batching of the Explorer *)

\* the least q with q * d >= n
Ceiling(n, d) == CHOOSE q \in 0..n : q * d >= n /\ (q - 1) * d < n

\* the concatenation of the first k batches
RECURSIVE BatchesUpTo(_)
BatchesUpTo(k) == IF k = 0 THEN <<>> ELSE BatchesUpTo(k - 1) \o Batch(links, k)

\* C22: n > 0 links go out in ceil(n / batchSize) batches, contiguous and in
\* input order: all but the last have batchSize links, the last between 1
\* and batchSize, and together they are the input list; one upstream call is
\* issued per batch (when every call is rejected, the rejected links are the
\* input links, each once and in input order)
C22_BatchesPartitionLinks ==
  links # <<>> /\ epc # "start" =>
    /\ NumBatches(Len(links)) = Ceiling(Len(links), batchSize)
    /\ \A b \in 1..(NumBatches(Len(links)) - 1) : Len(Batch(links, b)) = batchSize
    /\ Len(Batch(links, NumBatches(Len(links)))) \in 1..batchSize
    /\ BatchesUpTo(NumBatches(Len(links))) = links
    /\ Len(analyzed) + (IF epc = "await" THEN 1 ELSE 0) <= NumBatches(Len(links))
    /\ epc \in {"done", "organized", "failed"} => Len(analyzed) = NumBatches(Len(links))
    /\ (epc = "done" /\ \A b \in 1..Len(analyzed) : analyzed[b].kind = "err") =>
         [k \in 1..Len(allRejected) |-> Url(allRejected[k])] = [k \in 1..Len(links) |-> Url(links[k])]

\* C22 witness: 12 links went out in three calls, for batches of 5, 5 and 2
C22_Witness ==
  /\ epc = "done" /\ Len(links) = 12 /\ Len(analyzed) = 3
  /\ Len(Batch(links, 1)) = 5 /\ Len(Batch(links, 2)) = 5 /\ Len(Batch(links, 3)) = 2
  /\ Batch(links, 3) = <<links[11], links[12]>>

-----------------------------------------------------------------------------
(* The links one search contributes *)

\* C24: every search contributes at most linksPerSearch links to the
\* collected list, before the deduplication across searches, whatever the
\* response of the upstream model holds.
C24_AtMostLinksPerSearch ==
  \A k \in 1..Len(searchResults) :
    Len(Collect(searchResults[k], k)) <= linksPerSearch

-----------------------------------------------------------------------------
(* The pipeline of generateItinerary: the Scout, then the Explorer *)

\* the upstream model answers a search with batchSize + 1 links, or with none
PipelineTexts == {LinksText(batchSize + 1), <<"{","}">>}

InitPipeline ==
  /\ tz \in TimeZones
  /\ interests \in InterestLists
  /\ startDate = Day(1)
  /\ endDate \in {Day(1), Day(2)}
  /\ dates = <<>> /\ spc = "start" /\ calls = <<>> /\ generated = <<>>
  /\ searchResults = <<>> /\ allLinks = <<>> /\ totalLinksFound = 0
  /\ modelTexts = PipelineTexts
  /\ InvIdle /\ XIdle /\ EIdle /\ RIdle

\* a guard that lets generateItinerary go on while the Scout still waits
ScoutEventsStarted == spc \in {"done", "delay"}

\* the guard of the continuation of generateItinerary after
\* `await scoutEvents(...)`: scoutEvents has returned
ScoutEventsReturned == spc = "done"

\* api_server.js:800-828 and explorer.js:214-249: scoutEvents has returned;
\* without links generateItinerary returns, otherwise exploreLinks gets the
\* links and its first batch goes to analyzeBatch
ExploreScouted ==
  /\ ScoutEventsReturned
  /\ epc = "idle"
  /\ links' = allLinks
  /\ epc' = IF allLinks = <<>> THEN "nolinks" ELSE "await"
  /\ UNCHANGED <<analyzed, allEvents, allRejected, totalAnalyzed, events, itinerary, coverage, itineraryFile>>
  /\ UNCHANGED notE

PipelineNext ==
  \/ ScoutStart
  \/ Generate
  \/ ScoutDelay
  \/ ExploreScouted
  \/ Analyze
  \/ ExploreDelay
  \/ Organize

SpecPipeline == InitPipeline /\ [][PipelineNext]_vars

\* the generation calls of the run that are in flight
InFlight == (IF spc = "await" THEN 1 ELSE 0) + (IF epc = "await" THEN 1 ELSE 0)

\* a step that issues a Scout call, and one that issues an Explorer call
ScoutCallStarts == Len(calls') > Len(calls)
ExplorerCallStarts == epc' = "await" /\ epc # "await"

\* the Scout has issued and completed all its calls
ScoutOver ==
  /\ spc = "done"
  /\ Len(calls) = Len(interests) * Len(dates)
  /\ Len(generated) = Len(calls)

\* C23: within one pipeline run at most one upstream generation call is in
\* flight; a Scout call starts only after the previous Scout call has
\* completed and the fixed delay has elapsed; an Explorer batch call starts
\* only after the previous batch has completed and the inter-batch delay has
\* elapsed; no Explorer call starts before the last Scout call has completed.
C23_OneCallInFlight ==
  /\ [](InFlight <= 1)
  /\ [][ScoutCallStarts =>
          /\ Len(calls') = Len(calls) + 1
          /\ Len(generated) = Len(calls)
          /\ calls = <<>> \/ spc = "delay"]_vars
  /\ [][ExplorerCallStarts =>
          /\ Len(analyzed') = Len(analyzed)
          /\ analyzed = <<>> \/ epc = "delay"
          /\ ScoutOver]_vars
  /\ [](epc # "idle" => ScoutOver)

\* C23 witness: the Scout made two calls, a delay apart, and the Explorer is
\* at its second batch call after its inter-batch delay
C23_Witness ==
  /\ Len(calls) >= 2 /\ ScoutOver
  /\ Len(links) = batchSize + 1
  /\ epc = "await" /\ Len(analyzed) = 1

-----------------------------------------------------------------------------
(* The call sites that parse model text, against the chain of planner.js *)

\* the chain of planner.js is through its first four strategies: one of
\* them returned, or all four failed
ChainEnded == xStage \in {"returned", "array", "thrown"}

\* the chain without the array wrap returned a value
ChainReturned == xStage = "returned" /\ Len(xTried) < Len(Chain)

\* a call site gives what the chain without the array wrap gives: the value
\* it returned, or a failure where its four strategies failed
AsChain(ok, v) == IF ChainReturned THEN ok /\ <<v>> = xResult ELSE ~ok

\* C25: the Scout, the Explorer and the Editor parse a response text as the
\* fallback chain of the JSON Extractor does without its array wrap: each
\* returns the value the chain returns, and fails where the chain fails.
C25_CallSitesFollowTheChain ==
  ChainEnded =>
    /\ AsChain(ScoutExtractJSON(xText).ok, ScoutExtractJSON(xText).v)
    /\ AsChain(ExplorerExtractJSON(xText).ok, ExplorerExtractJSON(xText).v)
    /\ AsChain(~EditParse(xText).threw, EditParse(xText).v)

-----------------------------------------------------------------------------
(* Deduplication of events whose name or start_time holds a hyphen *)

\* planner.js:57-65, the filter with the key `${event.name}-${event.start_time}`
removeDuplicates(evs) == UniqueEventsFrom(evs, 1, {})

\* the k-th merged event has a (name, start_time) pair that no merged event
\* before it has
FirstOfItsPair(k) == \A j \in 1..(k - 1) : PairOf(allEvents[j]) # PairOf(allEvents[k])

\* seq holds the event e
Holds(seq, e) == \E i \in 1..Len(seq) : seq[i] = e

\* C27: neither the deduplication of the Explorer nor removeDuplicates drops
\* an event whose (name, start_time) pair differs from the pair of every
\* event before it, also when the name or the start_time holds a "-".
C27_NewPairIsNeverDropped ==
  epc \in {"done", "organized"} =>
    \A k \in 1..Len(allEvents) :
      FirstOfItsPair(k) =>
        /\ Holds(events, allEvents[k])
        /\ Holds(removeDuplicates(allEvents), allEvents[k])

-----------------------------------------------------------------------------
(* The frames of POST /api/generate-itinerary-stream *)

Terminal(f) == f.type \in {"complete", "error"}

\* the positions of the terminal frames written so far
TerminalFrames == {k \in 1..Len(frames) : Terminal(frames[k])}

\* C28: every response of the stream route starts with a "connected" frame;
\* it holds exactly one terminal frame, "complete" or "error", once the
\* stream is ended, and never more than one; the terminal frame is the last
\* frame written: no "progress" frame and no second terminal frame follows.
C28_OneTerminalFrameLast ==
  route = "stream" =>
    /\ frames # <<>> /\ frames[1].type = "connected"
    /\ \A k \in 2..Len(frames) : frames[k].type # "connected"
    /\ Cardinality(TerminalFrames) <= 1
    /\ TerminalFrames \subseteq {Len(frames)}
    /\ rpc = "responded" => TerminalFrames = {Len(frames)}

-----------------------------------------------------------------------------
(* The Scout on a date range that holds no day *)

\* d is missing, or is not a valid date
NoValidDate(d) == d \in {NullDate, UndefinedDate} \/ ~ParseDate("UTC", d).valid

\* both dates are valid and startDate is after endDate
StartAfterEnd ==
  /\ ~NoValidDate(startDate) /\ ~NoValidDate(endDate)
  /\ ParseDate("UTC", startDate).t > ParseDate("UTC", endDate).t

\* C29: when startDate is after endDate, or one of the two dates is missing
\* or is not a valid date, scoutEvents issues no upstream call and returns
\* an empty allLinks with totalLinksFound = 0.
C29_NoCallWithoutDays ==
  (spc # "idle" /\ (StartAfterEnd \/ NoValidDate(startDate) \/ NoValidDate(endDate))) =>
    /\ calls = <<>> /\ generated = <<>>
    /\ spc \in {"start", "done"}
    /\ spc = "done" => allLinks = <<>> /\ totalLinksFound = 0

-----------------------------------------------------------------------------
(* The itinerary of a successful response against its itinerary_by_day *)

StartText(e) == Get(e, <<"s","t","a","r","t","_","t","i","m","e">>).s

\* the start_time of the event names a day of [startDate, endDate]
StartsInRange(e) ==
  /\ HasStartText(e)
  /\ ValidDate(DatePart(StartText(e)))
  /\ DayNumber(startDate) <= DayNumber(DatePart(StartText(e)))
  /\ DayNumber(DatePart(StartText(e))) <= DayNumber(endDate)

\* the entries of itinerary_by_day that hold the event
EntriesWith(e) == {k \in 1..Len(coverage) : Holds(coverage[k].events, e)}

RECURSIVE CountsUpTo(_)
CountsUpTo(k) == IF k = 0 THEN 0 ELSE CountsUpTo(k - 1) + coverage[k].count

\* C30: in a successful response every event of itinerary whose start_time
\* date lies in [start_date, end_date] is in exactly one entry of
\* itinerary_by_day, the entry of its date; no entry holds an event that is
\* not in itinerary; the per-day counts sum to at most total_items, the
\* length of itinerary.
C30_ItineraryMatchesByDay ==
  epc = "organized" =>
    /\ \A i \in 1..Len(itinerary) :
         StartsInRange(itinerary[i]) =>
           /\ Cardinality(EntriesWith(itinerary[i])) = 1
           /\ \A k \in EntriesWith(itinerary[i]) :
                coverage[k].date = DatePart(StartText(itinerary[i]))
    /\ \A k \in 1..Len(coverage) :
         \A j \in 1..Len(coverage[k].events) : Holds(itinerary, coverage[k].events[j])
    /\ CountsUpTo(Len(coverage)) <= Len(itinerary)

=============================================================================
